---- MODULE Spec2Model ----
(***************************************************************************)
(* StockSprint stress test: the GameActions action library and the four    *)
(* persona loops (runUserA .. runUserD) that drive it.                     *)
(*                                                                         *)
(* Two layers are modelled.                                                *)
(*  - The action library.  Every GameActions method is written down as a   *)
(*    program: the sequence of its awaited page operations, reads,         *)
(*    branches, nested calls and returns, in source order.  The programs   *)
(*    are run one instruction at a time (specification SpecAct); every     *)
(*    throwing page operation may succeed or throw, and a throw enters the *)
(*    method's catch handler.                                              *)
(*  - The persona loops.  Every statement of runUserA..runUserD is one     *)
(*    action (specification Spec).  A call of a GameActions method returns *)
(*    one of the values the method's program can return.                   *)
(*                                                                         *)
(* Time is counted in ticks of 1000 ms.  A lot count or amount handed to   *)
(* the action library is a record [v, frac] standing for v, or for v + 0.5 *)
(* when frac, so that non-integer arguments exist.                         *)
(***************************************************************************)
EXTENDS Integers, Sequences, FiniteSets, TLC

VARIABLES
  \* ---- the page (what the remote application renders) ----
  ui,         \* record of the observable facts the actions read
  \* ---- one running GameActions call ----
  cur,        \* [h, arg] of the top-level call, or NoCall
  stack,      \* frames [h, pc, mode, regs], the last one is running
  clicks,     \* clicks issued by the call so far: target -> how many
  touched,    \* TRUE once the call has issued a page interaction
  shots,      \* screenshots taken by the call so far
  ret,        \* value the top-level call returned, or Running
  escaped,    \* TRUE when an exception left the top-level call
  faults,     \* what went wrong in the call: [thrown, caught, shotFailed]
  uiAtCall,   \* the page as it was when the call began
  storeAtCall,\* the credential store as it was when the call began
  store,      \* the credential store data/users.json: [exists, users]
  ncalls,     \* calls made so far on this page
  \* ---- one persona run ----
  persona,    \* "A", "B", "C" or "D"
  pc,         \* the statement the persona is at
  now,        \* wall clock (Date.now()), in ticks since the launch
  slept,      \* ticks the running waitForTimeout has lasted so far
  startTime,  \* runUserX: startTime
  duration,   \* runUserX: duration
  loc,        \* the persona's local variables
  preCalls,   \* calls made before the loop, in order: [name, args, res, late]
  iterCalls,  \* calls made in the current loop iteration, in order
  game,       \* the remote game: [running, quiz, published]
  \* ---- the credential store shared by several callers ----
  regCalls,   \* register calls running side by side: caller -> [proc, arg, pc, regs, ret]
  assigned,   \* the credential each scenario test has picked: persona -> entry
  \* ---- the asset panel and its parser ----
  acct,       \* what the asset panel shows: [loaded, price]
  parsed      \* one parseCurrency application: [text, out]

actVars == <<ui, cur, stack, clicks, touched, shots, ret, escaped, faults, uiAtCall, storeAtCall,
            store, ncalls>>
perVars == <<persona, pc, now, slept, startTime, duration, loc, preCalls, iterCalls, game>>
harnessVars == <<regCalls, assigned, acct, parsed>>
vars == <<ui, cur, stack, clicks, touched, shots, ret, escaped, faults, uiAtCall, storeAtCall,
          store, ncalls,
          persona, pc, now, slept, startTime, duration, loc, preCalls, iterCalls, game,
          regCalls, assigned, acct, parsed>>

NoCall == [h |-> "none", arg |-> [none |-> 0]]

\* values an action returns
RTrue == [kind |-> "bool", v |-> TRUE]
RFalse == [kind |-> "bool", v |-> FALSE]
RNull == [kind |-> "null"]
\* what ret holds while the call runs, and after an exception left the call
Running == [kind |-> "running"]
Threw == [kind |-> "threw"]

\* a text read from the page (textContent()): null, or a sequence of characters
TNull == [null |-> TRUE, s |-> <<>>]
Txt(s) == [null |-> FALSE, s |-> s]

(***************************************************************************)
(* Instructions of an action program.                                      *)
(***************************************************************************)
\* an awaited page operation: it can throw
U(op, t) == [k |-> "ui", op |-> op, t |-> t]
\* an awaited read of a page fact into a local; it can throw
R(fact, r) == [k |-> "read", op |-> "read", t |-> fact, r |-> r]
\* locator.isVisible().catch(() => dflt): a read that yields dflt instead of throwing
G(fact, r, dflt) == [k |-> "guard", op |-> "read", t |-> fact, r |-> r, d |-> dflt]
\* a synchronous read (page.url()) of a page fact into a local
S(fact, r) == [k |-> "sync", op |-> "read", t |-> fact, r |-> r]
\* if (c) goto label
BR(c, to) == [k |-> "br", c |-> c, to |-> to]
\* if (!c) goto label
BN(c, to) == [k |-> "bn", c |-> c, to |-> to]
J(to) == [k |-> "jmp", to |-> to]
L(n) == [k |-> "label", n |-> n]
Ret(v) == [k |-> "ret", v |-> v]
\* r = await this.h()
Call(h, r) == [k |-> "call", h |-> h, r |-> r]
\* try { mkdir; await page.screenshot() } catch {}   inside the try body
Shot == [k |-> "shot"]

\* r = f(locals, arguments): a synchronous computation on locals
LetR(r, f) == [k |-> "let", r |-> r, f |-> f]
\* return the value of a local
RetR(r) == [k |-> "retr", r |-> r]

(***************************************************************************)
(* The action programs, in source order.  Labels name the places the       *)
(* source branches to; console logging is left out (it reads no page state *)
(* and cannot fail).                                                       *)
(***************************************************************************)

\* Action 00 giving up the polling after one more sample
waitForGameStart_OnePoll == <<
  U("waitForever", "countdown"), R("countdownText", "firstCountdown"), U("sleep", "2000"),
  R("countdownText", "secondCountdown"), BN("firstEqSecond", "changed"), L("poll"),
  U("sleep", "2000"), R("countdownText", "currentCountdown"),
  BN("currentEqSecond", "changed"), L("changed"), Ret(RTrue) >>

\* Action 00
waitForGameStart == <<
  U("waitForever", "countdown"),          \* waitFor visible, timeout: 0
  R("countdownText", "firstCountdown"),
  U("sleep", "2000"),
  R("countdownText", "secondCountdown"),
  BN("firstEqSecond", "changed"),         \* if (first !== second) return true
  L("poll"),                              \* while (true)
  U("sleep", "2000"),
  R("countdownText", "currentCountdown"),
  BN("currentEqSecond", "changed"),
  J("poll"),
  L("changed"),
  Ret(RTrue) >>

\* Action 01 writing users.json before it waits for the success toast
register_WriteBeforeToast == <<
  U("click", "openSignup"), U("waitFor", "signupModal"), U("fill", "displayName"),
  U("fill", "signupUsername"), U("fill", "signupPassword"), U("fill", "confirmPassword"),
  U("click", "submitSignup"), S("dataDirExists", "dirExists"), BR("dirExists", "haveDir"),
  U("fs", "mkdir"), L("haveDir"), LetR("users", "emptyList"),
  S("usersFileExists", "fileExists"), BN("fileExists", "push"), U("fs", "readUsers"),
  L("push"), LetR("users", "pushUser"), U("fs", "writeUsers"),
  U("waitFor", "registerToast"), Ret(RTrue) >>

\* Action 01
register == <<
  U("click", "openSignup"),
  U("waitFor", "signupModal"),
  U("fill", "displayName"),
  U("fill", "signupUsername"),
  U("fill", "signupPassword"),
  U("fill", "confirmPassword"),
  U("click", "submitSignup"),
  U("waitFor", "registerToast"),
  S("dataDirExists", "dirExists"),
  BR("dirExists", "haveDir"),
  U("fs", "mkdir"),
  L("haveDir"),
  LetR("users", "emptyList"),
  S("usersFileExists", "fileExists"),
  BN("fileExists", "push"),
  U("fs", "readUsers"),                   \* readFileSync + JSON.parse into users
  L("push"),
  LetR("users", "pushUser"),
  U("fs", "writeUsers"),                  \* writeFileSync(users)
  Ret(RTrue) >>

\* Action 02 without the check of the token read from localStorage
login_NoTokenCheck == <<
  U("goto", "/"), U("fill", "username"), U("fill", "password"), U("click", "submitLogin"),
  U("waitForURL", "home"), R("token", "token"), Ret(RTrue) >>

\* Action 02
login == <<
  U("goto", "/"),
  U("fill", "username"),
  U("fill", "password"),
  U("click", "submitLogin"),
  U("waitForURL", "home"),
  R("token", "token"),
  BN("token", "noToken"),
  Ret(RTrue),
  L("noToken"),
  Ret(RFalse) >>

\* Action 03 without the test that the avatar selector has closed
changeAvatar_NoCloseCheck == <<
  BR("badIndex", "invalid"),
  U("waitFor", "avatarArea"), U("click", "avatarArea"), U("sleep", "500"),
  U("waitFor", "changeAvatarOption"), U("click", "changeAvatarOption"),
  U("waitForURL", "#avatar-selector"),
  U("waitFor", "targetAvatar"), U("scroll", "targetAvatar"), U("sleep", "300"),
  U("click", "targetAvatar"),
  U("waitFor", "saveButton"), U("click", "saveButton"), U("sleep", "1500"),
  S("avatarSelectorOpen", "stillOpen"),
  U("sleep", "500"),
  R("avatarMatches", "matches"),
  BR("matches", "verified"),
  Ret(RTrue),
  L("verified"),
  Ret(RTrue),
  L("invalid"),
  Ret(RFalse) >>

\* Action 03
changeAvatar == <<
  BR("badIndex", "invalid"),
  U("waitFor", "avatarArea"),
  U("click", "avatarArea"),
  U("sleep", "500"),
  U("waitFor", "changeAvatarOption"),
  U("click", "changeAvatarOption"),
  U("waitForURL", "#avatar-selector"),
  U("waitFor", "targetAvatar"),
  U("scroll", "targetAvatar"),
  U("sleep", "300"),
  U("click", "targetAvatar"),
  U("waitFor", "saveButton"),
  U("click", "saveButton"),
  U("sleep", "1500"),
  S("avatarSelectorOpen", "stillOpen"),
  BR("stillOpen", "notClosed"),
  U("sleep", "500"),
  R("avatarMatches", "matches"),
  BR("matches", "verified"),
  Ret(RTrue),                              \* "still counted as success"
  L("verified"),
  Ret(RTrue),
  L("invalid"),
  Ret(RFalse),
  L("notClosed"),
  Ret(RFalse) >>

\* Action 10
openLoanShark == <<
  S("home", "onHome"),
  BN("onHome", "notHome"),
  U("waitFor", "loanButton"),
  U("click", "loanButton"),
  U("waitFor", "loanModalTitle"),
  U("sleep", "500"),
  S("hashLoanshark", "hash"),
  G("merchantImageVisible", "isImageVisible", FALSE),
  Ret(RTrue),
  L("notHome"),
  Ret(RFalse) >>

\* closeLoanShark looking for the close button whether the modal is open or not
closeLoanShark_NoOpenCheck == <<
  G("modalVisible", "isModalVisible", FALSE),
  G("closeButtonVisible", "closeButtonVisible", FALSE), BN("closeButtonVisible", "noButton"),
  U("click", "closeButton"), U("sleep", "1000"),
  G("modalHidden", "isModalClosed", TRUE), BN("isModalClosed", "stillOpen"),
  U("sleep", "300"), S("hashLoanshark", "hash"), Ret(RTrue),
  L("noButton"), Ret(RFalse),
  L("stillOpen"), Ret(RFalse) >>

closeLoanShark == <<
  G("modalVisible", "isModalVisible", FALSE),
  BN("isModalVisible", "already"),
  G("closeButtonVisible", "closeButtonVisible", FALSE),
  BN("closeButtonVisible", "noButton"),
  U("click", "closeButton"),
  U("sleep", "1000"),
  G("modalHidden", "isModalClosed", TRUE),
  BN("isModalClosed", "stillOpen"),
  U("sleep", "300"),
  S("hashLoanshark", "hash"),
  Ret(RTrue),
  L("already"),
  Ret(RTrue),
  L("noButton"),
  Ret(RFalse),
  L("stillOpen"),
  Ret(RFalse) >>

\* Action 19
interactWithLoanShark == <<
  G("modalVisible", "isModalVisible", FALSE),
  BR("isModalVisible", "opened"),
  Call("openLoanShark", "openSuccess"),
  BN("openSuccess", "cannotOpen"),
  L("opened"),
  U("waitFor", "merchantImage"),
  U("sleep", "500"),
  R("dialogue", "beforeDialogue"),
  U("click", "merchantImage"),
  U("sleep", "1500"),
  R("dialogue", "afterDialogue"),
  LetR("hasChange", "hasChange"),
  Ret(RTrue),
  L("cannotOpen"),
  Ret(RFalse) >>

setEmployeeStatus == << Ret(RFalse) >>

\* Action 04 reading the debt with a fallback instead of failing
readAssets_DebtOptional == <<
  U("sleep", "2000"), U("waitFor", "totalAssetsLabel"),
  R("totalAssetsText", "totalAssetsText"), R("cashText", "cashText"),
  R("stockCountText", "stockCountText"), R("stockValueText", "stockValueText"),
  G("debtText", "debtText", TNull), LetR("assetData", "assetData"), RetR("assetData") >>

\* Action 04
readAssets == <<
  U("sleep", "2000"),
  U("waitFor", "totalAssetsLabel"),
  R("totalAssetsText", "totalAssetsText"),
  R("cashText", "cashText"),
  R("stockCountText", "stockCountText"),
  R("stockValueText", "stockValueText"),
  R("debtText", "debtText"),
  LetR("assetData", "assetData"),
  RetR("assetData") >>

\* Action 05
readContracts == <<
  U("sleep", "2000"),
  G("marginLabelVisible", "marginLabelVisible", FALSE),
  BN("marginLabelVisible", "empty"),
  R("marginText", "margin"),
  R("cardCount", "count"),
  LetR("contracts", "zero"),
  LetR("i", "zero"),
  L("cards"),                             \* for (i = 0; i < count; i++)
  BN("iLtCount", "done"),
  R("cardFirstLine", "match"),
  BN("match", "next"),                    \* if (!match) continue
  R("cardSecondLine", "secondLine"),
  LetR("contracts", "pushContract"),
  L("next"),
  LetR("i", "incI"),
  J("cards"),
  L("done"),
  LetR("contractData", "contractData"),
  RetR("contractData"),
  L("empty"),
  LetR("contractData", "emptyContractData"),
  RetR("contractData") >>

\* Action 06 without the isDisabled branch: the trade button is clicked whatever it reads
buyStock_NoDisabledCheck == <<
  BR("badLots", "invalid"), U("waitFor", "spotTab"), R("spotActive", "isSpotActive"),
  BR("isSpotActive", "tabOk"), U("click", "spotTab"), U("sleep", "500"), L("tabOk"),
  U("waitFor", "buySellSwitch"), R("buyMode", "isBuyMode"), BR("isBuyMode", "modeOk"),
  U("click", "buySellSwitch"), U("sleep", "500"), L("modeOk"),
  U("waitFor", "lotsInput"), U("click", "lotsInput"), U("press", "Backspace"),
  U("fill", "lotsInput"), U("waitFor", "tradeButton"), R("tradeDisabled", "isDisabled"),
  U("click", "tradeButton"), U("sleep", "1000"), U("waitFor", "dialog"),
  R("dialogHTML", "dialogHTML"), U("waitFor", "confirmButton"), R("confirmText", "buttonText"),
  U("click", "confirmButton"), U("sleep", "500"), U("waitForHidden", "dialog"), Ret(RTrue),
  L("invalid"), Ret(RFalse) >>

\* Action 06
buyStock == <<
  BR("badLots", "invalid"),               \* amount <= 0 || !Number.isInteger(amount)
  U("waitFor", "spotTab"),
  R("spotActive", "isSpotActive"),
  BR("isSpotActive", "tabOk"),
  U("click", "spotTab"),
  U("sleep", "500"),
  L("tabOk"),
  U("waitFor", "buySellSwitch"),
  R("buyMode", "isBuyMode"),
  BR("isBuyMode", "modeOk"),
  U("click", "buySellSwitch"),
  U("sleep", "500"),
  L("modeOk"),
  U("waitFor", "lotsInput"),
  U("click", "lotsInput"),                \* clickCount: 3
  U("press", "Backspace"),
  U("fill", "lotsInput"),
  U("waitFor", "tradeButton"),
  R("tradeDisabled", "isDisabled"),
  BR("isDisabled", "disabled"),
  U("click", "tradeButton"),
  U("sleep", "1000"),
  U("waitFor", "dialog"),
  R("dialogHTML", "dialogHTML"),
  U("waitFor", "confirmButton"),
  R("confirmText", "buttonText"),
  U("click", "confirmButton"),
  U("sleep", "500"),
  U("waitForHidden", "dialog"),
  Ret(RTrue),
  L("invalid"),
  Ret(RFalse),
  L("disabled"),
  Ret(RFalse) >>

\* Action 07
sellStock == << Ret(RFalse) >>

\* Action 08 clicking the contract tab whatever class it reads on it
buyContract_NoTabCheck == <<
  BR("badLots", "invalid"), BR("badLeverage", "invalid"), U("waitFor", "contractTab"),
  R("contractActive", "isContractActive"), U("click", "contractTab"), U("sleep", "500"),
  U("waitFor", "directionButton"), R("directionActive", "isDirectionActive"),
  BR("isDirectionActive", "dirOk"), U("click", "directionButton"), U("sleep", "500"),
  L("dirOk"), R("inputCount", "inputCount"), U("waitFor", "leverageInput"),
  U("focus", "leverageInput"), U("press", "Control+A"), U("type", "leverageInput"),
  U("blur", "leverageInput"), U("sleep", "800"), U("waitFor", "lotsInput"),
  U("focus", "lotsInput"), U("press", "Control+A"), U("type", "lotsInput"),
  U("blur", "lotsInput"), U("sleep", "800"), U("waitFor", "tradeButton"),
  R("tradeDisabled", "isDisabled"), R("inputValue", "currentLeverage"),
  R("inputValue", "currentAmount"), G("marginDisplay", "marginDisplay", FALSE),
  BN("isDisabled", "enabled"), Shot, Ret(RFalse), L("enabled"), U("click", "tradeButton"),
  U("sleep", "1000"), U("waitFor", "dialog"), U("waitFor", "confirmButton"),
  R("confirmText", "buttonText"), U("click", "confirmButton"), U("sleep", "500"),
  U("waitForHidden", "dialog"), Ret(RTrue), L("invalid"), Ret(RFalse) >>

\* Action 08
buyContract == <<
  BR("badLots", "invalid"),               \* amount <= 0 || !Number.isInteger(amount)
  BR("badLeverage", "invalid"),           \* leverage <= 0
  U("waitFor", "contractTab"),
  R("contractActive", "isContractActive"),
  BR("isContractActive", "tabOk"),
  U("click", "contractTab"),
  U("sleep", "500"),
  L("tabOk"),
  U("waitFor", "directionButton"),
  R("directionActive", "isDirectionActive"),
  BR("isDirectionActive", "dirOk"),
  U("click", "directionButton"),
  U("sleep", "500"),
  L("dirOk"),
  R("inputCount", "inputCount"),
  U("waitFor", "leverageInput"),
  U("focus", "leverageInput"),
  U("press", "Control+A"),
  U("type", "leverageInput"),
  U("blur", "leverageInput"),
  U("sleep", "800"),
  U("waitFor", "lotsInput"),
  U("focus", "lotsInput"),
  U("press", "Control+A"),
  U("type", "lotsInput"),
  U("blur", "lotsInput"),
  U("sleep", "800"),
  U("waitFor", "tradeButton"),
  R("tradeDisabled", "isDisabled"),
  R("inputValue", "currentLeverage"),
  R("inputValue", "currentAmount"),
  G("marginDisplay", "marginDisplay", FALSE),
  BN("isDisabled", "enabled"),
  Shot,
  Ret(RFalse),
  L("enabled"),
  U("click", "tradeButton"),
  U("sleep", "1000"),
  U("waitFor", "dialog"),
  U("waitFor", "confirmButton"),
  R("confirmText", "buttonText"),
  U("click", "confirmButton"),
  U("sleep", "500"),
  U("waitForHidden", "dialog"),
  Ret(RTrue),
  L("invalid"),
  Ret(RFalse) >>

\* Action 09 without the wait for the dialog to be hidden
cancelAllContracts_NoDialogWait == <<
  Call("readContracts", "beforeData"), BR("noContracts", "skip"),
  U("waitFor", "contractTab"), R("contractActive", "isContractActive"),
  BR("isContractActive", "tabOk"), U("click", "contractTab"), U("sleep", "500"), L("tabOk"),
  U("waitFor", "cancelButton"), R("cancelDisabled", "isDisabled"), BR("isDisabled", "disabled"),
  U("click", "cancelButton"), U("sleep", "1000"), U("waitFor", "dialog"),
  U("waitFor", "confirmButton"), R("confirmText", "buttonText"), U("click", "confirmButton"),
  U("sleep", "500"), U("sleep", "3000"), Ret(RTrue),
  L("skip"), Ret(RTrue), L("disabled"), Ret(RFalse) >>

\* Action 09 answering false when its preliminary readContracts fails
cancelAllContracts_ReadFailureFails == <<
  Call("readContracts", "beforeData"), BR("readFailed", "disabled"),
  BR("noContracts", "skip"),
  U("waitFor", "contractTab"), R("contractActive", "isContractActive"),
  BR("isContractActive", "tabOk"), U("click", "contractTab"), U("sleep", "500"),
  L("tabOk"),
  U("waitFor", "cancelButton"), R("cancelDisabled", "isDisabled"), BR("isDisabled", "disabled"),
  U("click", "cancelButton"), U("sleep", "1000"),
  U("waitFor", "dialog"), U("waitFor", "confirmButton"), R("confirmText", "buttonText"),
  U("click", "confirmButton"), U("sleep", "500"),
  U("waitForHidden", "dialog"), U("sleep", "3000"),
  Ret(RTrue),
  L("skip"), Ret(RTrue),
  L("disabled"), Ret(RFalse) >>

\* Action 09
cancelAllContracts == <<
  Call("readContracts", "beforeData"),
  BR("noContracts", "skip"),              \* !beforeData || contracts.length === 0
  U("waitFor", "contractTab"),
  R("contractActive", "isContractActive"),
  BR("isContractActive", "tabOk"),
  U("click", "contractTab"),
  U("sleep", "500"),
  L("tabOk"),
  U("waitFor", "cancelButton"),
  R("cancelDisabled", "isDisabled"),
  BR("isDisabled", "disabled"),
  U("click", "cancelButton"),
  U("sleep", "1000"),
  U("waitFor", "dialog"),
  U("waitFor", "confirmButton"),
  R("confirmText", "buttonText"),
  U("click", "confirmButton"),
  U("sleep", "500"),
  U("waitForHidden", "dialog"),
  U("sleep", "3000"),
  Ret(RTrue),
  L("skip"),
  Ret(RTrue),
  L("disabled"),
  Ret(RFalse) >>

\* Action 11
handleLoan == <<
  BR("badAmount", "invalid"),             \* amount <= 0
  G("modalVisible", "isModalVisible", FALSE),
  BR("isModalVisible", "opened"),
  Call("openLoanShark", "openSuccess"),
  BN("openSuccess", "cannotOpen"),
  L("opened"),
  U("waitFor", "loanModeSwitch"),
  R("borrowMode", "isBorrowMode"),
  BN("needSwitch", "modeOk"),
  U("click", "loanModeSwitch"),
  U("sleep", "500"),
  L("modeOk"),
  R("inputCount", "inputCount"),
  LetR("i", "zero"),
  L("inputs"),                            \* for (i = 0; i < inputCount; i++)
  BN("iLtInputCount", "fallback"),
  R("inputWidth60", "width60"),
  BR("width60", "found"),                 \* break
  LetR("i", "incI"),
  J("inputs"),
  L("fallback"),                          \* amountInput = allInputs.nth(1)
  L("found"),
  U("waitFor", "loanAmountInput"),
  R("inputValue", "currentValue"),
  U("evaluate", "loanAmountInput"),       \* native value setter + input/change/blur
  U("sleep", "500"),
  R("inputValue", "newValue"),
  U("waitFor", "loanSubmit"),
  R("loanDisabled", "isDisabled"),
  BR("isDisabled", "disabled"),
  U("click", "loanSubmit"),
  U("sleep", "1000"),
  U("waitFor", "dialog"),
  U("waitFor", "confirmButton"),
  R("confirmText", "confirmButtonText"),
  U("click", "confirmButton"),
  U("sleep", "500"),
  U("waitForHidden", "dialog"),
  G("successToast", "toastVisible", FALSE),
  BR("toastVisible", "close"),
  G("errorToast", "hasError", FALSE),
  BN("hasError", "close"),
  R("errorToastText", "errorMsg"),
  Ret(RFalse),
  L("close"),
  Call("closeLoanShark", "closed"),       \* the result is not looked at
  Ret(RTrue),
  L("invalid"),
  Ret(RFalse),
  L("cannotOpen"),
  Ret(RFalse),
  L("disabled"),
  Ret(RFalse) >>

\* Action 12
waitForQuizStart == <<
  U("waitForever", "quizTitle"),          \* waitFor visible, timeout: 0
  G("overlayVisible", "isVisible", FALSE),
  BR("isVisible", "final"),
  G("miniGameButtonVisible", "buttonVisible", FALSE),
  BN("buttonVisible", "final"),
  U("click", "miniGameButton"),
  U("sleep", "1000"),
  L("final"),
  R("quizTitleVisible", "finalCheck"),
  BN("finalCheck", "notShown"),
  Ret(RTrue),
  L("notShown"),
  Ret(RFalse) >>

\* Action 13 answering false when the clicked button is not disabled afterwards
answerQuiz_NeedsDisabled == <<
  U("sleep", "2000"), G("countdownNumberHidden", "countdownGone", FALSE),
  U("waitFor", "anyOptionButton"), U("waitFor", "targetOption"),
  R("optionText", "buttonText"), U("click", "targetOption"), U("sleep", "800"),
  R("optionDisabled", "isDisabled"), BN("isDisabled", "notLocked"),
  G("submittedHint", "hasSubmittedHint", FALSE), Ret(RTrue),
  L("notLocked"), Ret(RFalse) >>

\* Action 13
answerQuiz == <<
  U("sleep", "2000"),
  G("countdownNumberHidden", "countdownGone", FALSE),  \* waitFor hidden .catch(log)
  U("waitFor", "anyOptionButton"),
  U("waitFor", "targetOption"),
  R("optionText", "buttonText"),
  U("click", "targetOption"),
  U("sleep", "800"),
  R("optionDisabled", "isDisabled"),
  G("submittedHint", "hasSubmittedHint", FALSE),
  Ret(RTrue) >>

\* Action 14
waitQuizResultAndReport == <<
  G("submittedHint", "isSubmitted", FALSE),
  U("waitFor", "resultIndicator"),        \* timeout: 120000
  U("sleep", "1000"),
  Call("readAssets", "resultAssets"),
  BR("resultAssetsNull", "noAssets"),
  RetR("resultAssets"),
  L("noAssets"),
  Ret(RNull) >>

\* Actions 15 - 18: declared, not implemented
waitForMinorityStart == << Ret(RFalse) >>

betMinority == << Ret(RFalse) >>

closeBorrowAndReturn == << Ret(RFalse) >>

waitMinorityResultAndReport == << Ret(RNull) >>

Handlers == {
  "waitForGameStart", "register", "login", "changeAvatar", "interactWithLoanShark",
  "setEmployeeStatus", "readAssets", "readContracts", "buyStock", "sellStock",
  "buyContract", "cancelAllContracts", "handleLoan", "waitForQuizStart", "answerQuiz",
  "waitQuizResultAndReport", "waitForMinorityStart", "closeLoanShark", "openLoanShark",
  "betMinority", "closeBorrowAndReturn", "waitMinorityResultAndReport" }

\* the program of method h
Prog(h) ==
  CASE h = "waitForGameStart" -> waitForGameStart
    [] h = "register" -> register
    [] h = "login" -> login
    [] h = "changeAvatar" -> changeAvatar
    [] h = "interactWithLoanShark" -> interactWithLoanShark
    [] h = "setEmployeeStatus" -> setEmployeeStatus
    [] h = "readAssets" -> readAssets
    [] h = "readContracts" -> readContracts
    [] h = "buyStock" -> buyStock
    [] h = "sellStock" -> sellStock
    [] h = "buyContract" -> buyContract
    [] h = "cancelAllContracts" -> cancelAllContracts
    [] h = "handleLoan" -> handleLoan
    [] h = "waitForQuizStart" -> waitForQuizStart
    [] h = "answerQuiz" -> answerQuiz
    [] h = "waitQuizResultAndReport" -> waitQuizResultAndReport
    [] h = "waitForMinorityStart" -> waitForMinorityStart
    [] h = "closeLoanShark" -> closeLoanShark
    [] h = "openLoanShark" -> openLoanShark
    [] h = "betMinority" -> betMinority
    [] h = "closeBorrowAndReturn" -> closeBorrowAndReturn
    [] h = "waitMinorityResultAndReport" -> waitMinorityResultAndReport

(***************************************************************************)
(* The catch handler of each method: whether its body is inside a try,     *)
(* whether the handler takes a screenshot, and the value it returns.       *)
(***************************************************************************)
CatchOf(h) ==
  CASE h \in {"waitForGameStart", "closeLoanShark"} ->
         [try |-> TRUE, shot |-> FALSE, v |-> RFalse]
    [] h \in {"readAssets", "readContracts", "waitQuizResultAndReport"} ->
         [try |-> TRUE, shot |-> TRUE, v |-> RNull]
    [] h \in {"setEmployeeStatus", "sellStock", "waitForMinorityStart", "betMinority",
              "closeBorrowAndReturn", "waitMinorityResultAndReport"} ->
         [try |-> FALSE, shot |-> FALSE, v |-> RFalse]
    [] OTHER -> [try |-> TRUE, shot |-> TRUE, v |-> RFalse]

\* catch (error) { log; try { mkdirSync; await page.screenshot() } catch (e) {} ... }
\* whether a failing screenshot (ok = FALSE) leaves the catch handler as an exception
ScreenshotLeaks_NoInnerTry(ok) == ~ok

ScreenshotLeaks(ok) == FALSE

(***************************************************************************)
(* Arguments.  A number is [v, frac], standing for v, or v + 0.5 when frac.*)
(***************************************************************************)
Num(v, frac) == [v |-> v, frac |-> frac]
\* x < 0
LeqZero_Strict(x) == x.v < 0

\* x <= 0
LeqZero(x) == x.v < 0 \/ (x.v = 0 /\ ~x.frac)
\* Number.isInteger(x)
IsInteger(x) == ~x.frac

MaxLots == 2
MaxInputs == 2
MaxCards == 2
MaxCalls == 1

Nums == {Num(v, f) : v \in -1..MaxLots, f \in BOOLEAN}
NoArg == [none |-> 0]

Inputs(h) ==
  CASE h = "buyStock" -> {[lots |-> n] : n \in Nums}
    [] h = "sellStock" -> {[lots |-> n] : n \in {Num(1, FALSE)}}
    [] h = "buyContract" ->
         {[type |-> t, leverage |-> l, lots |-> n] :
            t \in {"LONG", "SHORT"}, l \in {Num(0, FALSE), Num(2, FALSE)},
            n \in {Num(0, FALSE), Num(0, TRUE), Num(1, FALSE)}}
    [] h = "handleLoan" ->
         {[action |-> a, amount |-> n] :
            a \in {"BORROW", "REPAY"}, n \in {Num(-1, FALSE), Num(0, FALSE), Num(1, FALSE)}}
    [] h = "changeAvatar" -> {[index |-> i] : i \in {-1, 0, 50, 51}}
    [] h \in {"register", "login"} -> {[user |-> "u1", pass |-> "p1"]}
    [] OTHER -> {NoArg}

(***************************************************************************)
(* parseCurrency.  A text is [null, s] with s a sequence of one-character  *)
(* strings; a number is an integer count of 1/Scale.                       *)
(***************************************************************************)
MaxLen == 3

RECURSIVE Pow10(_)
Pow10(n) == IF n = 0 THEN 1 ELSE 10 * Pow10(n - 1)
Scale == Pow10(MaxLen)

Digits == <<"0", "1", "2", "3", "4", "5", "6", "7", "8", "9">>
IsDigit(c) == \E i \in DOMAIN Digits : Digits[i] = c
DigitVal(c) == (CHOOSE i \in DOMAIN Digits : Digits[i] = c) - 1
RECURSIVE IntOf(_)
\* the value of a run of digits
IntOf(ds) == IF ds = <<>> THEN 0 ELSE 10 * IntOf(SubSeq(ds, 1, Len(ds) - 1)) + DigitVal(ds[Len(ds)])

NaN == [kind |-> "NaN"]
Number(v) == [kind |-> "number", v |-> v]
TypeError == [kind |-> "TypeError"]

\* the length of the run of digits of s that starts at position i
DigitRun(s, i) ==
  CHOOSE n \in 0..Len(s) :
    /\ i + n - 1 <= Len(s)
    /\ \A k \in i..(i + n - 1) : IsDigit(s[k])
    /\ (i + n <= Len(s) => ~IsDigit(s[i + n]))

\* parseFloat on a string of digits, '.' and '-': sign, digits, '.', digits
parseFloat(s) ==
  LET neg == Len(s) >= 1 /\ s[1] = "-"
      i == IF neg THEN 2 ELSE 1
      n == DigitRun(s, i)
      j == i + n
      dot == j <= Len(s) /\ s[j] = "."
      m == IF dot THEN DigitRun(s, j + 1) ELSE 0
      mag == IntOf(SubSeq(s, i, j - 1)) * Scale
               + IntOf(SubSeq(s, j + 1, j + m)) * Pow10(MaxLen - m)
  IN IF n = 0 /\ m = 0 THEN NaN ELSE Number(IF neg THEN 0 - mag ELSE mag)

isNaN(x) == x.kind = "NaN"
Kept(c) == IsDigit(c) \/ c \in {".", "-"}
\* text.replace(/[^0-9.-]/g, ''), a TypeError on null
Replace(text) == IF text.null THEN TypeError ELSE SelectSeq(text.s, Kept)

\* parseCurrency without the test of !text
parseCurrency_NoNullCheck(text) ==
  LET cleaned == Replace(text) IN
    IF text.null THEN cleaned
    ELSE IF isNaN(parseFloat(cleaned)) THEN Number(0) ELSE parseFloat(cleaned)

parseCurrency(text) ==
  IF text.null \/ text.s = <<>> THEN Number(0)
  ELSE LET value == parseFloat(Replace(text)) IN
         IF isNaN(value) THEN Number(0) ELSE value

(***************************************************************************)
(* The asset panel.  The remote game shows an account with cash 1, one     *)
(* share worth `price`, no debt; before its first push the panel's figures *)
(* are empty.                                                              *)
(***************************************************************************)
MaxPrice == 2

DefaultAccount == [loaded |-> TRUE, price |-> 1]
Accounts == [loaded : BOOLEAN, price : 1..MaxPrice]
NoParse == [text |-> TNull, out |-> [kind |-> "none"]]

Dollars(n) == Txt(<<"$", Digits[n + 1]>>)
\* what a figure of the panel shows while no data has arrived
Placeholders == {Txt(<<>>), Txt(<<"-", "-">>)}
\* the texts a figure of the panel can show
Shown(fact) ==
  IF ~acct.loaded THEN Placeholders
  ELSE CASE fact = "totalAssetsText" -> {Dollars(1 + acct.price)}
         [] fact = "cashText" -> {Dollars(1)}
         [] fact = "stockCountText" -> {Txt(<<"1", " ">>)}
         [] fact = "stockValueText" -> {Dollars(acct.price)}
         [] fact = "debtText" -> {Dollars(0)}

AssetFacts == {"totalAssetsText", "cashText", "stockCountText", "stockValueText", "debtText"}

(***************************************************************************)
(* The page: the facts the programs read.                                  *)
(***************************************************************************)
DefaultUI ==
  [tab |-> "spot", side |-> "buy", dir |-> "LONG", tradeDisabled |-> FALSE,
   dialog |-> FALSE, modal |-> FALSE, loanMode |-> "borrow", loanDisabled |-> FALSE,
   home |-> TRUE, token |-> TRUE, countdown |-> "00:30", quiz |-> FALSE, cards |-> 0]

TradePages ==
  {[DefaultUI EXCEPT !.tab = a, !.side = b, !.dir = c, !.tradeDisabled = d] :
     a \in {"spot", "contract"}, b \in {"buy", "sell"}, c \in {"LONG", "SHORT"},
     d \in BOOLEAN}

LoanPages ==
  {[DefaultUI EXCEPT !.modal = a, !.loanMode = b, !.loanDisabled = c, !.home = d] :
     a \in BOOLEAN, b \in {"borrow", "repay"}, c \in BOOLEAN, d \in BOOLEAN}

GamePages ==
  {[DefaultUI EXCEPT !.countdown = a, !.quiz = b, !.home = c, !.token = d] :
     a \in {"hidden", "00:30"}, b \in BOOLEAN, c \in BOOLEAN, d \in BOOLEAN}

BookPages ==
  {[DefaultUI EXCEPT !.cards = n, !.tab = a] : n \in 0..MaxCards, a \in {"spot", "contract"}}

UIStates == TradePages \cup LoanPages \cup GamePages \cup BookPages

NoStore == [exists |-> FALSE, users |-> <<>>]
\* users.json as an earlier registration left it
OneUserStore ==
  [exists |-> TRUE, users |-> <<[username |-> "u0", password |-> "p0", registered |-> TRUE]>>]

\* the values a read of `fact` can yield on page u, for a call with arguments a
ReadValues(fact, u, a) ==
  CASE fact = "spotActive" -> {u.tab = "spot"}
    [] fact = "contractActive" -> {u.tab = "contract"}
    [] fact = "buyMode" -> {u.side = "buy"}
    [] fact = "directionActive" -> {u.dir = a.type}
    [] fact \in {"tradeDisabled", "cancelDisabled"} -> {u.tradeDisabled}
    [] fact = "modalVisible" -> {u.modal}
    [] fact = "modalHidden" -> {~u.modal}
    [] fact = "borrowMode" -> {u.loanMode = "borrow"}
    [] fact = "loanDisabled" -> {u.loanDisabled}
    [] fact = "home" -> {u.home}
    [] fact = "token" -> {u.token}
    [] fact = "countdownText" -> {u.countdown}
    [] fact \in {"quizTitleVisible", "overlayVisible"} -> {u.quiz}
    [] fact = "marginLabelVisible" -> {u.cards > 0}
    [] fact = "cardCount" -> {u.cards}
    \* parseCurrency(marginText): the margin shown next to the label, positive while
    \* the book holds a contract
    [] fact = "marginText" -> {IF u.cards > 0 THEN 1 ELSE 0}
    [] fact = "inputCount" -> 0..MaxInputs
    [] fact = "dialogue" -> {"", "d1", "d2"}
    [] fact = "usersFileExists" -> {store.exists}
    [] fact \in AssetFacts -> Shown(fact)
    [] OTHER -> BOOLEAN

\* whether the awaited condition of a wait holds on page u
WaitOk(ins, u) ==
  CASE ins.op = "waitForever" /\ ins.t = "countdown" -> u.countdown # "hidden"
    [] ins.op = "waitForever" /\ ins.t = "quizTitle" -> u.quiz
    [] ins.op = "waitForURL" /\ ins.t = "home" -> u.home
    [] ins.op = "waitFor" /\ ins.t = "loanModalTitle" -> u.modal
    [] ins.op = "waitFor" /\ ins.t = "dialog" -> u.dialog
    [] ins.op = "waitForHidden" /\ ins.t = "dialog" -> ~u.dialog
    [] OTHER -> TRUE

\* the pages a successful page operation can leave, from page u
Effects(ins, u, a) ==
  IF ins.op = "goto" THEN {[u EXCEPT !.home = FALSE, !.modal = FALSE, !.dialog = FALSE]}
  ELSE IF ins.op # "click" THEN {u}
  ELSE CASE ins.t = "spotTab" -> {[u EXCEPT !.tab = "spot"]}
         [] ins.t = "contractTab" -> {[u EXCEPT !.tab = "contract"]}
         [] ins.t = "buySellSwitch" ->
              {[u EXCEPT !.side = IF @ = "buy" THEN "sell" ELSE "buy"]}
         [] ins.t = "directionButton" -> {[u EXCEPT !.dir = a.type]}
         [] ins.t = "loanModeSwitch" ->
              {[u EXCEPT !.loanMode = IF @ = "borrow" THEN "repay" ELSE "borrow"]}
         [] ins.t \in {"tradeButton", "cancelButton", "loanSubmit"} ->
              {u, [u EXCEPT !.dialog = TRUE]}
         \* the confirmation of a cancel-all is sent to the game, which may empty
         \* the book before the next read or not
         [] ins.t = "confirmButton" ->
              IF cur.h = "cancelAllContracts"
                THEN {u, [u EXCEPT !.dialog = FALSE],
                      [u EXCEPT !.dialog = FALSE, !.cards = 0]}
                ELSE {u, [u EXCEPT !.dialog = FALSE]}
         [] ins.t = "loanButton" -> {u, [u EXCEPT !.modal = TRUE]}
         [] ins.t = "closeButton" -> {u, [u EXCEPT !.modal = FALSE]}
         [] ins.t = "submitLogin" ->
              {u, [u EXCEPT !.home = TRUE], [u EXCEPT !.home = TRUE, !.token = TRUE]}
         [] OTHER -> {u}

(***************************************************************************)
(* Conditions and computations on the locals rg of a call with arguments a *)
(***************************************************************************)
Cond(c, rg, a) ==
  CASE c = "badLots" -> LeqZero(a.lots) \/ ~IsInteger(a.lots)
    [] c = "badLeverage" -> LeqZero(a.leverage)
    [] c = "badAmount" -> LeqZero(a.amount)
    [] c = "badIndex" -> a.index < 0 \/ a.index > 50
    [] c = "firstEqSecond" -> rg["firstCountdown"] = rg["secondCountdown"]
    [] c = "currentEqSecond" -> rg["currentCountdown"] = rg["secondCountdown"]
    [] c = "noContracts" ->
         rg["beforeData"].kind = "null" \/ rg["beforeData"].n = 0
    [] c = "readFailed" -> rg["beforeData"].kind = "null"
    [] c = "needSwitch" ->
         \/ a.action = "BORROW" /\ ~rg["isBorrowMode"]
         \/ a.action = "REPAY" /\ rg["isBorrowMode"]
    [] c = "iLtCount" -> rg["i"] < rg["count"]
    [] c = "iLtInputCount" -> rg["i"] < rg["inputCount"]
    [] c = "resultAssetsNull" -> rg["resultAssets"].kind = "null"
    [] c = "openSuccess" -> rg["openSuccess"].v
    [] OTHER -> rg[c]

Compute(f, rg, a) ==
  CASE f = "zero" -> 0
    [] f = "incI" -> rg["i"] + 1
    [] f = "emptyList" -> <<>>
    [] f = "pushUser" ->
         Append(rg["users"], [username |-> a.user, password |-> a.pass, registered |-> TRUE])
    [] f = "hasChange" ->
         rg["beforeDialogue"] # rg["afterDialogue"] /\ rg["afterDialogue"] # ""
    [] f = "assetData" ->
         [kind |-> "AssetData",
          totalAssets |-> parseCurrency(rg["totalAssetsText"]),
          cash |-> parseCurrency(rg["cashText"]),
          stockValue |-> parseCurrency(rg["stockValueText"]),
          stockCount |-> parseCurrency(rg["stockCountText"]),
          debt |-> parseCurrency(rg["debtText"])]
    [] f = "pushContract" -> rg["contracts"] + 1
    [] f = "contractData" ->
         [kind |-> "ContractData", n |-> rg["contracts"], margin |-> rg["margin"]]
    [] f = "emptyContractData" -> [kind |-> "ContractData", n |-> 0, margin |-> 0]

(***************************************************************************)
(* Running a call, one instruction at a time.                              *)
(***************************************************************************)
Top == stack[Len(stack)]
Ins == Prog(Top.h)[Top.pc]
InRun == stack # <<>> /\ Top.mode = "run"

LabelAt(h, n) ==
  CHOOSE i \in DOMAIN Prog(h) : Prog(h)[i].k = "label" /\ Prog(h)[i].n = n

NewFrame(h) == [h |-> h, pc |-> 1, mode |-> "run", regs |-> <<>>]
SetTop(fr) == [stack EXCEPT ![Len(stack)] = fr]
Next1(fr) == [fr EXCEPT !.pc = @ + 1]
\* the locals of method h that the method looks at again; the others are only logged
LiveRegs(h) ==
  CASE h = "waitForGameStart" -> {"firstCountdown", "secondCountdown", "currentCountdown"}
    [] h = "register" -> {"dirExists", "fileExists", "users"}
    [] h = "login" -> {"token"}
    [] h = "changeAvatar" -> {"stillOpen", "matches"}
    [] h = "openLoanShark" -> {"onHome"}
    [] h = "closeLoanShark" -> {"isModalVisible", "closeButtonVisible", "isModalClosed"}
    [] h = "interactWithLoanShark" ->
         {"isModalVisible", "openSuccess", "beforeDialogue", "afterDialogue", "hasChange"}
    [] h = "readAssets" ->
         {"totalAssetsText", "cashText", "stockCountText", "stockValueText", "debtText",
          "assetData"}
    [] h = "readContracts" ->
         {"marginLabelVisible", "margin", "count", "contracts", "i", "match", "contractData"}
    [] h = "buyStock" -> {"isSpotActive", "isBuyMode", "isDisabled"}
    [] h = "buyContract" -> {"isContractActive", "isDirectionActive", "isDisabled"}
    [] h = "cancelAllContracts" -> {"beforeData", "isContractActive", "isDisabled"}
    [] h = "handleLoan" ->
         {"isModalVisible", "openSuccess", "isBorrowMode", "inputCount", "i", "width60",
          "isDisabled", "toastVisible", "hasError"}
    [] h = "waitForQuizStart" -> {"isVisible", "buttonVisible", "finalCheck"}
    [] h = "answerQuiz" -> {"countdownGone", "isDisabled"}
    [] h = "waitQuizResultAndReport" -> {"resultAssets"}
    [] OTHER -> {}

SetReg(fr, r, v) ==
  IF r \in LiveRegs(fr.h) THEN [fr EXCEPT !.regs = (r :> v) @@ @] ELSE fr
Goto(fr, n) == [fr EXCEPT !.pc = LabelAt(fr.h, n)]

\* the clicks issued, after instruction ins was issued
Clicked(ins) ==
  IF ins.op = "click"
    THEN (ins.t :> (IF ins.t \in DOMAIN clicks THEN clicks[ins.t] + 1 ELSE 1)) @@ clicks
    ELSE clicks

\* waitForTimeout and file system calls are not page interactions
Touched(ins) == touched \/ ins.op \notin {"sleep", "fs"}

NoClicks == <<>>
NoFaults == [thrown |-> FALSE, caught |-> FALSE, shotFailed |-> FALSE]

\* await actions.h(arg), from an idle page
Invoke ==
  /\ stack = <<>>
  /\ ncalls < MaxCalls
  /\ \E h \in Handlers : \E a \in Inputs(h) :
       /\ cur' = [h |-> h, arg |-> a]
       /\ stack' = <<NewFrame(h)>>
  /\ clicks' = NoClicks
  /\ touched' = FALSE
  /\ shots' = 0
  /\ ret' = Running
  /\ escaped' = FALSE
  /\ faults' = NoFaults
  /\ uiAtCall' = ui
  /\ storeAtCall' = store
  /\ ncalls' = ncalls + 1
  /\ UNCHANGED <<ui, store>>
  /\ UNCHANGED perVars
  /\ UNCHANGED harnessVars

\* an awaited page or file operation succeeds
ExecUi ==
  /\ InRun
  /\ Ins.k = "ui"
  /\ WaitOk(Ins, ui)
  /\ ui' \in Effects(Ins, ui, cur.arg)
  /\ clicks' = Clicked(Ins)
  /\ touched' = Touched(Ins)
  /\ store' = IF Ins.op = "fs" /\ Ins.t = "writeUsers"
                THEN [exists |-> TRUE, users |-> Top.regs["users"]]
                ELSE store
  /\ stack' = SetTop(Next1(IF Ins.op = "fs" /\ Ins.t = "readUsers"
                             THEN SetReg(Top, "users", store.users)
                             ELSE Top))
  /\ UNCHANGED <<cur, shots, ret, escaped, faults, uiAtCall, storeAtCall, ncalls>>
  /\ UNCHANGED perVars
  /\ UNCHANGED harnessVars

\* a read of a page fact succeeds
ExecRead ==
  /\ InRun
  /\ Ins.k \in {"read", "guard", "sync"}
  /\ \E v \in ReadValues(Ins.t, ui, cur.arg) :
       stack' = SetTop(Next1(SetReg(Top, Ins.r, v)))
  /\ clicks' = Clicked(Ins)
  /\ touched' = Touched(Ins)
  /\ UNCHANGED <<ui, cur, shots, ret, escaped, faults, uiAtCall, storeAtCall, store, ncalls>>
  /\ UNCHANGED perVars
  /\ UNCHANGED harnessVars

\* locator.isVisible() rejects and .catch(() => d) supplies the value
GuardFallback ==
  /\ InRun
  /\ Ins.k = "guard"
  /\ stack' = SetTop(Next1(SetReg(Top, Ins.r, Ins.d)))
  /\ clicks' = Clicked(Ins)
  /\ touched' = Touched(Ins)
  /\ UNCHANGED <<ui, cur, shots, ret, escaped, faults, uiAtCall, storeAtCall, store, ncalls>>
  /\ UNCHANGED perVars
  /\ UNCHANGED harnessVars

\* an awaited operation throws (not found, timed out, evaluation failed)
Throw ==
  /\ InRun
  /\ Ins.k \in {"ui", "read"}
  /\ stack' = SetTop([Top EXCEPT !.mode = "catch"])
  /\ clicks' = Clicked(Ins)
  /\ touched' = Touched(Ins)
  /\ faults' = [faults EXCEPT !.thrown = TRUE]
  /\ UNCHANGED <<ui, cur, shots, ret, escaped, uiAtCall, storeAtCall, store, ncalls>>
  /\ UNCHANGED perVars
  /\ UNCHANGED harnessVars

\* branches, jumps, labels and synchronous computations
Control ==
  /\ InRun
  /\ Ins.k \in {"br", "bn", "jmp", "label", "let"}
  /\ stack' = SetTop(
       CASE Ins.k = "br" ->
              IF Cond(Ins.c, Top.regs, cur.arg) THEN Goto(Top, Ins.to) ELSE Next1(Top)
         [] Ins.k = "bn" ->
              IF Cond(Ins.c, Top.regs, cur.arg) THEN Next1(Top) ELSE Goto(Top, Ins.to)
         [] Ins.k = "jmp" -> Goto(Top, Ins.to)
         [] Ins.k = "label" -> Next1(Top)
         [] Ins.k = "let" ->
              Next1(SetReg(Top, Ins.r, Compute(Ins.f, Top.regs, cur.arg))))
  /\ UNCHANGED <<ui, cur, clicks, touched, shots, ret, escaped, faults, uiAtCall, storeAtCall, store, ncalls>>
  /\ UNCHANGED perVars
  /\ UNCHANGED harnessVars

\* try { await page.screenshot() } catch {} inside the body (buyContract, disabled)
DebugShot ==
  /\ InRun
  /\ Ins.k = "shot"
  /\ \E ok \in BOOLEAN : shots' = IF ok THEN shots + 1 ELSE shots
  /\ stack' = SetTop(Next1(Top))
  /\ UNCHANGED <<ui, cur, clicks, touched, ret, escaped, faults, uiAtCall, storeAtCall, store, ncalls>>
  /\ UNCHANGED perVars
  /\ UNCHANGED harnessVars

\* r = await this.h()
CallSub ==
  /\ InRun
  /\ Ins.k = "call"
  /\ stack' = Append(stack, NewFrame(Ins.h))
  /\ UNCHANGED <<ui, cur, clicks, touched, shots, ret, escaped, faults, uiAtCall, storeAtCall, store, ncalls>>
  /\ UNCHANGED perVars
  /\ UNCHANGED harnessVars

\* the running method returns v: to its caller's local, or to the top-level caller
Deliver(v) ==
  IF Len(stack) = 1
    THEN /\ stack' = <<>>
         /\ ret' = v
    ELSE /\ stack' = [SubSeq(stack, 1, Len(stack) - 1) EXCEPT
                        ![Len(stack) - 1] =
                           Next1(SetReg(stack[Len(stack) - 1],
                                        Prog(stack[Len(stack) - 1].h)[stack[Len(stack) - 1].pc].r,
                                        v))]
         /\ ret' = ret

\* an exception leaves the running method: into the caller's try, or out of the call
Propagate ==
  IF Len(stack) = 1
    THEN /\ stack' = <<>>
         /\ ret' = Threw
         /\ escaped' = TRUE
    ELSE /\ stack' = [SubSeq(stack, 1, Len(stack) - 1) EXCEPT
                        ![Len(stack) - 1].mode = "catch"]
         /\ ret' = ret
         /\ escaped' = escaped

Return ==
  /\ InRun
  /\ Ins.k \in {"ret", "retr"}
  /\ Deliver(IF Ins.k = "ret" THEN Ins.v ELSE Top.regs[Ins.r])
  /\ UNCHANGED <<ui, cur, clicks, touched, shots, escaped, faults, uiAtCall, storeAtCall, store, ncalls>>
  /\ UNCHANGED perVars
  /\ UNCHANGED harnessVars

\* catch (error) { log; [try { screenshot } catch {}]; return failure }
Catch ==
  /\ stack # <<>>
  /\ Top.mode = "catch"
  /\ LET c == CatchOf(Top.h) IN
       IF ~c.try
         THEN Propagate /\ shots' = shots /\ faults' = faults
         ELSE \E ok \in (IF c.shot THEN BOOLEAN ELSE {TRUE}) :
                /\ shots' = IF c.shot /\ ok THEN shots + 1 ELSE shots
                /\ faults' = [faults EXCEPT !.caught = @ \/ Len(stack) = 1,
                                            !.shotFailed = @ \/ ~ok]
                /\ IF ScreenshotLeaks(ok)
                     THEN Propagate
                     ELSE Deliver(c.v) /\ escaped' = escaped
  /\ UNCHANGED <<ui, cur, clicks, touched, uiAtCall, storeAtCall, store, ncalls>>
  /\ UNCHANGED perVars
  /\ UNCHANGED harnessVars

\* cancelSuccess = await actions.cancelAllContracts(); expect(cancelSuccess).toBe(true);
\* afterData = await actions.readContracts()
AfterCancel(nonEmpty) == [after |-> "cancelAllContracts", nonEmpty |-> nonEmpty]

ReadAfterCancel ==
  /\ stack = <<>>
  /\ cur # NoCall
  /\ cur.h = "cancelAllContracts"
  /\ ret = RTrue
  /\ cur' = [h |-> "readContracts", arg |-> AfterCancel("cancelButton" \in DOMAIN clicks)]
  /\ stack' = <<NewFrame("readContracts")>>
  /\ clicks' = NoClicks
  /\ touched' = FALSE
  /\ shots' = 0
  /\ ret' = Running
  /\ escaped' = FALSE
  /\ faults' = NoFaults
  /\ uiAtCall' = ui
  /\ storeAtCall' = store
  /\ UNCHANGED <<ui, store, ncalls>>
  /\ UNCHANGED perVars
  /\ UNCHANGED harnessVars

\* the remote game moves on while an action sleeps or blocks: the countdown
\* appears or counts down, a quiz is published
PageChange ==
  /\ InRun
  /\ cur.h \in {"waitForGameStart", "waitForQuizStart"}
  /\ Ins.k = "ui"
  /\ Ins.op \in {"sleep", "waitForever"}
  /\ \/ ui' = [ui EXCEPT !.countdown = IF @ = "00:30" THEN "00:29" ELSE "00:30"]
     \/ ui.quiz = FALSE /\ ui' = [ui EXCEPT !.quiz = TRUE]
  /\ UNCHANGED <<cur, stack, clicks, touched, shots, ret, escaped, faults, uiAtCall, storeAtCall, store, ncalls>>
  /\ UNCHANGED perVars
  /\ UNCHANGED harnessVars

(***************************************************************************)
(* The action library on its own: up to MaxCalls calls are made one after  *)
(* another, starting from any page; no persona runs.                       *)
(***************************************************************************)
\* no register calls run side by side and no scenario test has picked a credential
NoHarness ==
  /\ regCalls = <<>>
  /\ assigned = <<>>
  /\ acct = DefaultAccount
  /\ parsed = NoParse

NoPersona ==
  /\ persona = "none"
  /\ pc = "idle"
  /\ now = 0
  /\ slept = 0
  /\ startTime = 0
  /\ duration = 0
  /\ loc = [none |-> 0]
  /\ preCalls = <<>>
  /\ iterCalls = <<>>
  /\ game = [running |-> FALSE, quiz |-> FALSE, published |-> 0]

InitAct ==
  /\ ui \in UIStates
  /\ store \in {NoStore, [exists |-> TRUE, users |-> <<>>], OneUserStore}
  /\ cur = NoCall
  /\ stack = <<>>
  /\ clicks = NoClicks
  /\ touched = FALSE
  /\ shots = 0
  /\ ret = Running
  /\ escaped = FALSE
  /\ faults = NoFaults
  /\ uiAtCall = ui
  /\ storeAtCall = store
  /\ ncalls = 0
  /\ NoPersona
  /\ NoHarness

NextAct ==
  \/ Invoke
  \/ ExecUi
  \/ ExecRead
  \/ GuardFallback
  \/ Throw
  \/ Control
  \/ DebugShot
  \/ CallSub
  \/ Return
  \/ Catch
  \/ PageChange
  \/ ReadAfterCancel

SpecAct == InitAct /\ [][NextAct]_vars

\* no instruction has a timeout
HasTimeout_Never(ins) == FALSE

\* the awaited operation gives up by itself: every one but waitFor({ timeout: 0 })
HasTimeout(ins) == ~(ins.k = "ui" /\ ins.op = "waitForever")

\* the running call goes on: its awaited operation succeeds, or times out, or a
\* synchronous statement runs
Progress ==
  \/ ExecUi
  \/ ExecRead
  \/ GuardFallback
  \/ (InRun /\ HasTimeout(Ins) /\ Throw)
  \/ Control
  \/ DebugShot
  \/ CallSub
  \/ Return
  \/ Catch

\* the event loop resumes a call whose awaited operation has settled; nothing
\* obliges the remote game to show the countdown or a quiz
FairSpecAct == SpecAct /\ WF_vars(Progress)

(***************************************************************************)
(* The persona loops runUserA .. runUserD.  A persona awaits one call at a *)
(* time; the call is logged when it starts ([name, args, res, late], late  *)
(* telling whether the budget had elapsed by then) and its entry gets the  *)
(* result when it returns.  A call returns one of the values its program   *)
(* can return.  The clock counts from the launch of the persona.           *)
(***************************************************************************)
MaxTime == 4
MaxDuration == 3
\* the administrator publishes at most this many quizzes
MaxQuizzes == 2
MaxUnits == 3
MaxStock == 1
RandDen == 5

\* waitForTimeout(1000), in ticks
SettleTicks == 1
\* handleLoan('BORROW', 100), Math.min(100, debt), cash >= 100
LoanStep == 100

Personas == {"A", "B", "C", "D"}
Amounts == {k * (LoanStep \div 2) : k \in 0..MaxUnits}
AssetSnapshots ==
  {[kind |-> "AssetData", cash |-> c, stockCount |-> n, debt |-> d] :
     c \in Amounts, n \in 0..MaxStock, d \in Amounts}
\* samples of Math.random(): u stands for u / RandDen, in [0, 1)
RandomUnits == 0..(RandDen - 1)

\* Math.floor(Math.random() * (max - min + 1)), the offset min left out
randomInt_NoMin(u, min, max) == (u * (max - min + 1)) \div RandDen

\* Math.floor(Math.random() * (max - min + 1)) + min, with Math.random() = u / RandDen
randomInt(u, min, max) == ((u * (max - min + 1)) \div RandDen) + min

Min(a, b) == IF a < b THEN a ELSE b

\* the prices the chart can show: the amounts and one price well below them
Prices == Amounts \cup {LoanStep \div 10}

\* the current price of the stock, as the page shows it
getCurrentStockPrice == {[kind |-> "price", v |-> p] : p \in Prices}

\* the values the return statements of method h return
RetValues(h) == {Prog(h)[i].v : i \in {j \in DOMAIN Prog(h) : Prog(h)[j].k = "ret"}}
\* the values h returns from a local: snapshots read from the page.  The
\* personas only test the results of readContracts and waitQuizResultAndReport
\* against null, so one snapshot stands for all of them.
Payloads(h) ==
  CASE h = "readAssets" -> AssetSnapshots
    [] h = "waitQuizResultAndReport" ->
         {[kind |-> "AssetData", cash |-> 0, stockCount |-> 0, debt |-> 0]}
    [] h = "readContracts" -> {[kind |-> "ContractData", n |-> 0, margin |-> 0]}
    [] OTHER -> {}
NormalReturns(h) ==
  IF h = "getCurrentStockPrice" THEN getCurrentStockPrice
  ELSE RetValues(h) \cup Payloads(h)

\* waitFor({state: 'visible', timeout: 0}): the call cannot go on until the
\* remote game shows what it waits for
Blocked(h) ==
  \/ h = "waitForGameStart" /\ ~game.running
  \/ h = "waitForQuizStart" /\ ~game.quiz

Last(log) == log[Len(log)]
InFlight(log) == log # <<>> /\ Last(log).res = Running
Returned(log) == log # <<>> /\ Last(log).res # Running
\* Date.now() < startTime + duration
Budget_Ignored(t, st, d) == TRUE

Budget(t, st, d) == t < st + d

Start(log, h, a) ==
  Append(log, [name |-> h, args |-> a, res |-> Running,
               late |-> ~(now < startTime + duration)])

NoLoc ==
  [iteration |-> 0, iterStart |-> 0, assets |-> RNull, stockPrice |-> 0,
   buyCount |-> 0, cancelCount |-> 0, borrowCount |-> 0, repayCount |-> 0,
   idleCount |-> 0, hasTalkedToMerchant |-> FALSE, rand |-> 0, resume |-> "loop"]

\* no GameActions call is being interpreted: the personas use the calls' results only
IdlePage ==
  /\ ui = DefaultUI
  /\ cur = NoCall
  /\ stack = <<>>
  /\ clicks = NoClicks
  /\ touched = FALSE
  /\ shots = 0
  /\ ret = Running
  /\ escaped = FALSE
  /\ faults = NoFaults
  /\ uiAtCall = DefaultUI
  /\ store = NoStore
  /\ storeAtCall = NoStore
  /\ ncalls = 0

Init ==
  /\ IdlePage
  /\ NoHarness
  /\ persona \in Personas
  /\ pc = "launch"
  /\ now = 0
  /\ slept = 0
  /\ startTime = 0
  /\ duration \in 1..MaxDuration
  /\ loc = NoLoc
  /\ preCalls = <<>>
  /\ iterCalls = <<>>
  /\ game \in {[running |-> r, quiz |-> FALSE, published |-> 0] : r \in BOOLEAN}

\* const actions = new GameActions(page, username); const startTime = Date.now()
Launch ==
  /\ pc = "launch"
  /\ startTime' = now
  /\ pc' = "login"
  /\ UNCHANGED <<persona, now, slept, duration, loc, preCalls, iterCalls, game>>
  /\ UNCHANGED actVars
  /\ UNCHANGED harnessVars

\* const loginSuccess = await actions.login(username, password)
Login ==
  /\ pc = "login"
  /\ preCalls' = Start(preCalls, "login", [user |-> "u1"])
  /\ pc' = "loginCheck"
  /\ UNCHANGED <<persona, now, slept, startTime, duration, loc, iterCalls, game>>
  /\ UNCHANGED actVars
  /\ UNCHANGED harnessVars

\* the result of login is not looked at
LoginCheck_NoThrow ==
  /\ pc = "loginCheck"
  /\ Returned(preCalls)
  /\ pc' = "waitGame"
  /\ UNCHANGED <<persona, now, slept, startTime, duration, loc, preCalls, iterCalls, game>>
  /\ UNCHANGED actVars
  /\ UNCHANGED harnessVars

\* if (!loginSuccess) throw new Error(...)
LoginCheck ==
  /\ pc = "loginCheck"
  /\ Returned(preCalls)
  /\ pc' = IF Last(preCalls).res = RTrue THEN "waitGame" ELSE "thrown"
  /\ UNCHANGED <<persona, now, slept, startTime, duration, loc, preCalls, iterCalls, game>>
  /\ UNCHANGED actVars
  /\ UNCHANGED harnessVars

\* const gameStarted = await actions.waitForGameStart()
WaitGame ==
  /\ pc = "waitGame"
  /\ preCalls' = Start(preCalls, "waitForGameStart", NoArg)
  /\ pc' = "gameCheck"
  /\ UNCHANGED <<persona, now, slept, startTime, duration, loc, iterCalls, game>>
  /\ UNCHANGED actVars
  /\ UNCHANGED harnessVars

\* the budget counted from the end of the wait for the game: startTime read again
GameCheck_RestartsClock ==
  /\ pc = "gameCheck"
  /\ Returned(preCalls)
  /\ pc' = IF Last(preCalls).res = RTrue THEN "loop" ELSE "thrown"
  /\ startTime' = now
  /\ UNCHANGED <<persona, now, slept, duration, loc, preCalls, iterCalls, game>>
  /\ UNCHANGED actVars
  /\ UNCHANGED harnessVars

\* if (!gameStarted) throw new Error(...)
GameCheck ==
  /\ pc = "gameCheck"
  /\ Returned(preCalls)
  /\ pc' = IF Last(preCalls).res = RTrue THEN "loop" ELSE "thrown"
  /\ UNCHANGED <<persona, now, slept, startTime, duration, loc, preCalls, iterCalls, game>>
  /\ UNCHANGED actVars
  /\ UNCHANGED harnessVars

\* while (Date.now() < startTime + duration) { iteration++; ...
LoopTest ==
  /\ pc = "loop"
  /\ IF Budget(now, startTime, duration)
       THEN /\ pc' = persona
            /\ iterCalls' = <<>>
            /\ loc' = [loc EXCEPT !.iteration = @ + 1, !.iterStart = now,
                                  !.assets = RNull, !.stockPrice = 0, !.rand = 0]
       ELSE /\ pc' = "done"
            /\ UNCHANGED <<iterCalls, loc>>
  /\ UNCHANGED <<persona, now, slept, startTime, duration, preCalls, game>>
  /\ UNCHANGED actVars
  /\ UNCHANGED harnessVars

\* await page.waitForTimeout(1000), entered
Settle ==
  /\ pc = "settle"
  /\ ~InFlight(iterCalls)
  /\ slept' = 0
  /\ pc' = "sleeping"
  /\ UNCHANGED <<persona, now, startTime, duration, loc, preCalls, iterCalls, game>>
  /\ UNCHANGED actVars
  /\ UNCHANGED harnessVars

\* await page.waitForTimeout(1000), over
Wake ==
  /\ pc = "sleeping"
  /\ slept >= SettleTicks
  /\ pc' = loc.resume
  /\ loc' = [loc EXCEPT !.resume = "loop"]
  /\ slept' = 0
  /\ UNCHANGED <<persona, now, startTime, duration, preCalls, iterCalls, game>>
  /\ UNCHANGED actVars
  /\ UNCHANGED harnessVars

(***************************************************************************)
(* runUserA: the spot trader                                               *)
(***************************************************************************)
\* if (cash > buyThreshold && stockPrice > 0), buyThreshold = stockPrice * 2
ShouldBuy(cash, stockPrice) == cash > stockPrice * 2 /\ stockPrice > 0

\* else if (cash <= buyThreshold), the stockCount test left out
ShouldSell_AnyStock(cash, stockPrice, stockCount) == cash <= stockPrice * 2

\* else if (cash <= buyThreshold && stockCount > 0)
ShouldSell(cash, stockPrice, stockCount) == cash <= stockPrice * 2 /\ stockCount > 0

\* randomInt(1, 5), the lots not capped by what the cash affords
BuyLots_NotCapped(u, cash, stockPrice) == randomInt(u, 1, 5)

\* maxAffordable = Math.floor(cash / stockPrice); randomInt(1, Math.min(5, maxAffordable))
BuyLots(u, cash, stockPrice) == randomInt(u, 1, Min(5, cash \div stockPrice))

\* const assets = await actions.readAssets()
A_readAssets ==
  /\ pc = "A"
  /\ iterCalls' = Start(iterCalls, "readAssets", NoArg)
  /\ pc' = "A_assets"
  /\ UNCHANGED <<persona, now, slept, startTime, duration, loc, preCalls, game>>
  /\ UNCHANGED actVars
  /\ UNCHANGED harnessVars

\* if (!assets) { await page.waitForTimeout(1000); continue }
A_assetsCheck ==
  /\ pc = "A_assets"
  /\ Returned(iterCalls)
  /\ IF Last(iterCalls).res.kind = "null"
       THEN pc' = "settle" /\ loc' = loc
       ELSE pc' = "A_price" /\ loc' = [loc EXCEPT !.assets = Last(iterCalls).res]
  /\ UNCHANGED <<persona, now, slept, startTime, duration, preCalls, iterCalls, game>>
  /\ UNCHANGED actVars
  /\ UNCHANGED harnessVars

\* const stockPrice = await actions.getCurrentStockPrice()
A_getCurrentStockPrice ==
  /\ pc = "A_price"
  /\ iterCalls' = Start(iterCalls, "getCurrentStockPrice", NoArg)
  /\ pc' = "A_trade"
  /\ UNCHANGED <<persona, now, slept, startTime, duration, loc, preCalls, game>>
  /\ UNCHANGED actVars
  /\ UNCHANGED harnessVars

\* buy randomInt(1, min(5, floor(cash / price))) lots, or sell one lot, or hold
A_trade ==
  /\ pc = "A_trade"
  /\ Returned(iterCalls)
  /\ LET stockPrice == Last(iterCalls).res.v
         cash == loc.assets.cash
         stockCount == loc.assets.stockCount
     IN /\ loc' = [loc EXCEPT !.stockPrice = stockPrice]
        /\ IF ShouldBuy(cash, stockPrice)
             THEN \E u \in RandomUnits :
                    iterCalls' = Start(iterCalls, "buyStock",
                      [lots |-> Num(BuyLots(u, cash, stockPrice), FALSE)])
             ELSE IF ShouldSell(cash, stockPrice, stockCount)
               THEN iterCalls' = Start(iterCalls, "sellStock", [lots |-> Num(1, FALSE)])
               ELSE iterCalls' = iterCalls
  /\ pc' = "settle"
  /\ UNCHANGED <<persona, now, slept, startTime, duration, preCalls, game>>
  /\ UNCHANGED actVars
  /\ UNCHANGED harnessVars

(***************************************************************************)
(* runUserB: the contract trader                                           *)
(***************************************************************************)
\* if (rand < 0.2), with rand = u / RandDen
ShouldCancel(u) == 5 * u < RandDen

\* const contracts = await actions.readContracts()
B_readContracts ==
  /\ pc = "B"
  /\ iterCalls' = Start(iterCalls, "readContracts", NoArg)
  /\ pc' = "B_trade"
  /\ UNCHANGED <<persona, now, slept, startTime, duration, loc, preCalls, game>>
  /\ UNCHANGED actVars
  /\ UNCHANGED harnessVars

\* const rand = Math.random(); cancel all contracts, or open one contract
B_trade ==
  /\ pc = "B_trade"
  /\ Returned(iterCalls)
  /\ \E rand \in RandomUnits :
       /\ loc' = [loc EXCEPT !.rand = rand]
       /\ IF ShouldCancel(rand)
            THEN iterCalls' = Start(iterCalls, "cancelAllContracts", NoArg)
            ELSE \E u2 \in RandomUnits, u3 \in RandomUnits :
                   iterCalls' = Start(iterCalls, "buyContract",
                     [type |-> IF 2 * u2 > RandDen THEN "LONG" ELSE "SHORT",
                      leverage |-> Num(randomInt(u3, 1, 5), FALSE),
                      lots |-> Num(1, FALSE)])
  /\ pc' = "B_count"
  /\ UNCHANGED <<persona, now, slept, startTime, duration, preCalls, game>>
  /\ UNCHANGED actVars
  /\ UNCHANGED harnessVars

\* cancelCount++ / buyCount++ whatever the call returned
B_count_CountsFailures ==
  /\ pc = "B_count"
  /\ Returned(iterCalls)
  /\ loc' = IF Last(iterCalls).name = "cancelAllContracts"
              THEN [loc EXCEPT !.cancelCount = @ + 1]
              ELSE [loc EXCEPT !.buyCount = @ + 1]
  /\ pc' = "settle"
  /\ UNCHANGED <<persona, now, slept, startTime, duration, preCalls, iterCalls, game>>
  /\ UNCHANGED actVars
  /\ UNCHANGED harnessVars

\* if (cancelSuccess) cancelCount++ ... if (buySuccess) buyCount++
B_count ==
  /\ pc = "B_count"
  /\ Returned(iterCalls)
  /\ loc' = IF Last(iterCalls).res # RTrue THEN loc
            ELSE IF Last(iterCalls).name = "cancelAllContracts"
              THEN [loc EXCEPT !.cancelCount = @ + 1]
              ELSE [loc EXCEPT !.buyCount = @ + 1]
  /\ pc' = "settle"
  /\ UNCHANGED <<persona, now, slept, startTime, duration, preCalls, iterCalls, game>>
  /\ UNCHANGED actVars
  /\ UNCHANGED harnessVars

(***************************************************************************)
(* runUserC: the loan client                                               *)
(***************************************************************************)
\* else if (debt > 0), the cash test left out
ShouldRepay_AnyCash(cash, debt) == debt > 0

\* else if (debt > 0 && cash >= 100)
ShouldRepay(cash, debt) == debt > 0 /\ cash >= LoanStep

\* if (!hasTalkedToMerchant), the test of the iteration left out
C_talk_AnyIteration ==
  /\ pc = "C"
  /\ IF ~loc.hasTalkedToMerchant
       THEN /\ iterCalls' = Start(iterCalls, "interactWithLoanShark", NoArg)
            /\ pc' = "C_talked"
       ELSE /\ iterCalls' = iterCalls
            /\ pc' = "C_read"
  /\ UNCHANGED <<persona, now, slept, startTime, duration, loc, preCalls, game>>
  /\ UNCHANGED actVars
  /\ UNCHANGED harnessVars

\* if (iteration === 1 && !hasTalkedToMerchant) await actions.interactWithLoanShark()
C_talk ==
  /\ pc = "C"
  /\ IF loc.iteration = 1 /\ ~loc.hasTalkedToMerchant
       THEN /\ iterCalls' = Start(iterCalls, "interactWithLoanShark", NoArg)
            /\ pc' = "C_talked"
       ELSE /\ iterCalls' = iterCalls
            /\ pc' = "C_read"
  /\ UNCHANGED <<persona, now, slept, startTime, duration, loc, preCalls, game>>
  /\ UNCHANGED actVars
  /\ UNCHANGED harnessVars

\* if (talkSuccess) hasTalkedToMerchant = true; await page.waitForTimeout(1000)
C_talked ==
  /\ pc = "C_talked"
  /\ Returned(iterCalls)
  /\ loc' = [loc EXCEPT !.hasTalkedToMerchant = (@ \/ Last(iterCalls).res = RTrue),
                        !.resume = "C_read"]
  /\ pc' = "settle"
  /\ UNCHANGED <<persona, now, slept, startTime, duration, preCalls, iterCalls, game>>
  /\ UNCHANGED actVars
  /\ UNCHANGED harnessVars

\* const assets = await actions.readAssets()
C_readAssets ==
  /\ pc = "C_read"
  /\ iterCalls' = Start(iterCalls, "readAssets", NoArg)
  /\ pc' = "C_loan"
  /\ UNCHANGED <<persona, now, slept, startTime, duration, loc, preCalls, game>>
  /\ UNCHANGED actVars
  /\ UNCHANGED harnessVars

\* if (!assets) continue; borrow 100, or repay min(100, debt), or idle
C_loan ==
  /\ pc = "C_loan"
  /\ Returned(iterCalls)
  /\ LET assets == Last(iterCalls).res IN
       IF assets.kind = "null"
         THEN pc' = "settle" /\ loc' = loc /\ iterCalls' = iterCalls
       ELSE IF assets.debt = 0
         THEN /\ iterCalls' = Start(iterCalls, "handleLoan",
                                    [action |-> "BORROW", amount |-> Num(LoanStep, FALSE)])
              /\ loc' = [loc EXCEPT !.assets = assets]
              /\ pc' = "C_count"
       ELSE IF ShouldRepay(assets.cash, assets.debt)
         THEN /\ iterCalls' = Start(iterCalls, "handleLoan",
                    [action |-> "REPAY", amount |-> Num(Min(LoanStep, assets.debt), FALSE)])
              /\ loc' = [loc EXCEPT !.assets = assets]
              /\ pc' = "C_count"
       ELSE /\ iterCalls' = iterCalls
            /\ loc' = [loc EXCEPT !.assets = assets, !.idleCount = @ + 1]
            /\ pc' = "settle"
  /\ UNCHANGED <<persona, now, slept, startTime, duration, preCalls, game>>
  /\ UNCHANGED actVars
  /\ UNCHANGED harnessVars

\* if (borrowSuccess) borrowCount++ ... if (repaySuccess) repayCount++
C_count ==
  /\ pc = "C_count"
  /\ Returned(iterCalls)
  /\ loc' = IF Last(iterCalls).res # RTrue THEN loc
            ELSE IF Last(iterCalls).args.action = "BORROW"
              THEN [loc EXCEPT !.borrowCount = @ + 1]
              ELSE [loc EXCEPT !.repayCount = @ + 1]
  /\ pc' = "settle"
  /\ UNCHANGED <<persona, now, slept, startTime, duration, preCalls, iterCalls, game>>
  /\ UNCHANGED actVars
  /\ UNCHANGED harnessVars

(***************************************************************************)
(* runUserD: the quiz master                                               *)
(***************************************************************************)
options == <<"A", "B", "C", "D">>

\* const quizStarted = await actions.waitForQuizStart()
D_waitForQuizStart ==
  /\ pc = "D"
  /\ iterCalls' = Start(iterCalls, "waitForQuizStart", NoArg)
  /\ pc' = "D_answer"
  /\ UNCHANGED <<persona, now, slept, startTime, duration, loc, preCalls, game>>
  /\ UNCHANGED actVars
  /\ UNCHANGED harnessVars

\* await actions.answerQuiz(options[randomInt(0, 3)]), whatever waitForQuizStart returned
D_answerQuiz_NoBreak ==
  /\ pc = "D_answer"
  /\ Returned(iterCalls)
  /\ \E u \in RandomUnits :
       iterCalls' = Start(iterCalls, "answerQuiz", [option |-> options[randomInt(u, 0, 3) + 1]])
  /\ pc' = "D_report"
  /\ UNCHANGED <<persona, now, slept, startTime, duration, loc, preCalls, game>>
  /\ UNCHANGED actVars
  /\ UNCHANGED harnessVars

\* if (!quizStarted) break; await actions.answerQuiz(options[randomInt(0, 3)])
D_answerQuiz ==
  /\ pc = "D_answer"
  /\ Returned(iterCalls)
  /\ IF Last(iterCalls).res # RTrue
       THEN pc' = "done" /\ iterCalls' = iterCalls
       ELSE /\ \E u \in RandomUnits :
                 iterCalls' = Start(iterCalls, "answerQuiz",
                                    [option |-> options[randomInt(u, 0, 3) + 1]])
            /\ pc' = "D_report"
  /\ UNCHANGED <<persona, now, slept, startTime, duration, loc, preCalls, game>>
  /\ UNCHANGED actVars
  /\ UNCHANGED harnessVars

\* const updatedAssets = await actions.waitQuizResultAndReport()
D_waitQuizResultAndReport ==
  /\ pc = "D_report"
  /\ Returned(iterCalls)
  /\ iterCalls' = Start(iterCalls, "waitQuizResultAndReport", NoArg)
  /\ pc' = "settle"
  /\ UNCHANGED <<persona, now, slept, startTime, duration, loc, preCalls, game>>
  /\ UNCHANGED actVars
  /\ UNCHANGED harnessVars

(***************************************************************************)
(* The awaited call, the clock and the remote game                         *)
(***************************************************************************)
AwaitingPre == pc \in {"loginCheck", "gameCheck"}
Awaited == IF AwaitingPre THEN preCalls ELSE iterCalls

SetResult(v) ==
  IF AwaitingPre
    THEN /\ preCalls' = [preCalls EXCEPT ![Len(preCalls)].res = v]
         /\ iterCalls' = iterCalls
    ELSE /\ iterCalls' = [iterCalls EXCEPT ![Len(iterCalls)].res = v]
         /\ preCalls' = preCalls

\* the awaited call reaches one of its return statements
CallReturns ==
  /\ InFlight(Awaited)
  /\ ~Blocked(Last(Awaited).name)
  /\ \E v \in NormalReturns(Last(Awaited).name) : SetResult(v)
  /\ UNCHANGED <<persona, pc, now, slept, startTime, duration, loc, game>>
  /\ UNCHANGED actVars
  /\ UNCHANGED harnessVars

\* a page operation of the awaited call throws: its catch handler returns
CallFails ==
  /\ InFlight(Awaited)
  /\ Last(Awaited).name \in Handlers
  /\ CatchOf(Last(Awaited).name).try
  /\ SetResult(CatchOf(Last(Awaited).name).v)
  /\ UNCHANGED <<persona, pc, now, slept, startTime, duration, loc, game>>
  /\ UNCHANGED actVars
  /\ UNCHANGED harnessVars

\* actions.h(...) with h not a member of the GameActions class under src/: the
\* call expression throws a TypeError, which nothing in the persona catches
NotAFunction ==
  /\ ~AwaitingPre
  /\ InFlight(iterCalls)
  /\ Last(iterCalls).name \notin Handlers
  /\ iterCalls' = [iterCalls EXCEPT ![Len(iterCalls)].res = Threw]
  /\ pc' = "typeError"
  /\ UNCHANGED <<persona, now, slept, startTime, duration, loc, preCalls, game>>
  /\ UNCHANGED actVars
  /\ UNCHANGED harnessVars

\* a second passes.  The clock stops counting at MaxTime, which lies after
\* every deadline: from then on every reading of it is past the budget.
Tick ==
  /\ pc # "launch"
  /\ now < MaxTime \/ (pc = "sleeping" /\ slept < SettleTicks)
  /\ now' = IF now < MaxTime THEN now + 1 ELSE now
  /\ slept' = IF pc = "sleeping" /\ slept < SettleTicks THEN slept + 1 ELSE slept
  /\ UNCHANGED <<persona, pc, startTime, duration, loc, preCalls, iterCalls, game>>
  /\ UNCHANGED actVars
  /\ UNCHANGED harnessVars

\* the administrator starts the game: the countdown runs
GameStarts ==
  /\ ~game.running
  /\ game' = [game EXCEPT !.running = TRUE]
  /\ UNCHANGED <<persona, pc, now, slept, startTime, duration, loc, preCalls, iterCalls>>
  /\ UNCHANGED actVars
  /\ UNCHANGED harnessVars

\* the administrator publishes a quiz, or the quiz ends (no other persona looks
\* at it); published counts the quizzes published so far
QuizToggles ==
  /\ persona = "D"
  /\ game.running
  /\ game.quiz \/ game.published < MaxQuizzes
  /\ game' = [game EXCEPT !.quiz = ~@,
                          !.published = IF game.quiz THEN @ ELSE @ + 1]
  /\ UNCHANGED <<persona, pc, now, slept, startTime, duration, loc, preCalls, iterCalls>>
  /\ UNCHANGED actVars
  /\ UNCHANGED harnessVars

PersonaStep ==
  \/ Launch
  \/ Login
  \/ LoginCheck
  \/ WaitGame
  \/ GameCheck
  \/ LoopTest
  \/ Settle
  \/ Wake
  \/ A_readAssets
  \/ A_assetsCheck
  \/ A_getCurrentStockPrice
  \/ A_trade
  \/ B_readContracts
  \/ B_trade
  \/ B_count
  \/ C_talk
  \/ C_talked
  \/ C_readAssets
  \/ C_loan
  \/ C_count
  \/ D_waitForQuizStart
  \/ D_answerQuiz
  \/ D_waitQuizResultAndReport

Next ==
  \/ PersonaStep
  \/ CallReturns
  \/ CallFails
  \/ NotAFunction
  \/ Tick
  \/ GameStarts
  \/ QuizToggles

Spec == Init /\ [][Next]_vars

\* the persona keeps running, time passes, and a call that can go on returns;
\* nothing obliges the administrator to start the game or to publish a quiz,
\* nor a page operation to throw
FairSpec ==
  /\ Init
  /\ [][Next]_vars
  /\ WF_vars(PersonaStep)
  /\ WF_vars(CallReturns)
  /\ WF_vars(Tick)

(***************************************************************************)
(* Register calls side by side on one users.json (specification SpecReg).  *)
(* Every caller runs the register program.  Callers of one Node process    *)
(* share its event loop: a caller is switched out only at an await, and    *)
(* the statements between two awaits run without interruption.  Callers of *)
(* different worker processes interleave statement by statement.           *)
(***************************************************************************)
RegCallers == {1, 2}

\* the two callers run in one process, or in two (Playwright workers)
ProcAssignments == {[c \in RegCallers |-> 1], [c \in RegCallers |-> c]}

RegArg(c) == [user |-> IF c = 1 THEN "u1" ELSE "u2", pass |-> "p1"]
RegEntry(c) == [username |-> RegArg(c).user, password |-> RegArg(c).pass, registered |-> TRUE]

RegIns(c) == Prog("register")[regCalls[c].pc]
RegRunning(c) == regCalls[c].ret = Running

\* the file operations awaited as well (fs.promises in place of fs.*Sync)
Synchronous_FsAwaited(ins) == ins.k \notin {"ui", "read", "guard"}

\* a statement that is not awaited: fs.*Sync calls, tests, assignments, return
Synchronous(ins) == ins.k \notin {"ui", "read", "guard"} \/ (ins.k = "ui" /\ ins.op = "fs")

\* caller c is between two awaits
HoldsLoop(c) == RegRunning(c) /\ Synchronous(RegIns(c))

\* a scheduler that may switch callers of one process between any two statements
MayRun_Preemptive(c) == TRUE

\* caller c can run its next statement: no other caller of its process is
\* between two awaits
MayRun(c) ==
  \A d \in RegCallers \ {c} : regCalls[d].proc = regCalls[c].proc => ~HoldsLoop(d)

\* caller c runs the statement it is at
RegStep(c) ==
  /\ RegRunning(c)
  /\ MayRun(c)
  /\ LET fr == regCalls[c]
         ins == RegIns(c)
         to(n) == LabelAt("register", n)
     IN
       \/ /\ ins.k = "ui"
          /\ regCalls' = [regCalls EXCEPT ![c] =
                [fr EXCEPT !.pc = @ + 1,
                           !.regs = IF ins.op = "fs" /\ ins.t = "readUsers"
                                      THEN ("users" :> store.users) @@ @ ELSE @]]
          /\ store' = IF ins.op = "fs" /\ ins.t = "writeUsers"
                        THEN [exists |-> TRUE, users |-> fr.regs["users"]]
                        ELSE store
       \/ /\ ins.k = "sync"
          /\ \E v \in ReadValues(ins.t, ui, fr.arg) :
               regCalls' = [regCalls EXCEPT ![c] =
                 [fr EXCEPT !.pc = @ + 1, !.regs = (ins.r :> v) @@ @]]
          /\ store' = store
       \/ /\ ins.k \in {"br", "bn", "jmp", "label", "let"}
          /\ regCalls' = [regCalls EXCEPT ![c] =
               CASE ins.k = "br" ->
                      [fr EXCEPT !.pc = IF Cond(ins.c, fr.regs, fr.arg) THEN to(ins.to) ELSE @ + 1]
                 [] ins.k = "bn" ->
                      [fr EXCEPT !.pc = IF Cond(ins.c, fr.regs, fr.arg) THEN @ + 1 ELSE to(ins.to)]
                 [] ins.k = "jmp" -> [fr EXCEPT !.pc = to(ins.to)]
                 [] ins.k = "label" -> [fr EXCEPT !.pc = @ + 1]
                 [] ins.k = "let" ->
                      [fr EXCEPT !.pc = @ + 1,
                                 !.regs = (ins.r :> Compute(ins.f, fr.regs, fr.arg)) @@ @]]
          /\ store' = store
       \/ /\ ins.k = "ret"
          /\ regCalls' = [regCalls EXCEPT ![c] = [fr EXCEPT !.ret = ins.v]]
          /\ store' = store
  /\ UNCHANGED <<ui, cur, stack, clicks, touched, shots, ret, escaped, faults, uiAtCall,
                 storeAtCall, ncalls, assigned, acct, parsed>>
  /\ UNCHANGED perVars

\* the page or file operation caller c is at throws: catch (error) { ...; return false }
RegThrows(c) ==
  /\ RegRunning(c)
  /\ MayRun(c)
  /\ RegIns(c).k = "ui"
  /\ regCalls' = [regCalls EXCEPT ![c] = [@ EXCEPT !.ret = CatchOf("register").v]]
  /\ UNCHANGED <<assigned, acct, parsed>>
  /\ UNCHANGED actVars
  /\ UNCHANGED perVars

\* no single GameActions call is being interpreted
NoSingleCall ==
  /\ ui = DefaultUI
  /\ cur = NoCall
  /\ stack = <<>>
  /\ clicks = NoClicks
  /\ touched = FALSE
  /\ shots = 0
  /\ ret = Running
  /\ escaped = FALSE
  /\ faults = NoFaults
  /\ uiAtCall = DefaultUI
  /\ ncalls = 0

InitReg ==
  /\ NoSingleCall
  /\ NoPersona
  /\ store \in {NoStore, [exists |-> TRUE, users |-> <<>>], OneUserStore}
  /\ storeAtCall = store
  /\ \E pr \in ProcAssignments :
       regCalls = [c \in RegCallers |->
                    [proc |-> pr[c], arg |-> RegArg(c), pc |-> 1, regs |-> <<>>, ret |-> Running]]
  /\ assigned = <<>>
  /\ acct = DefaultAccount
  /\ parsed = NoParse

NextReg == \E c \in RegCallers : RegStep(c) \/ RegThrows(c)

SpecReg == InitReg /\ [][NextReg]_vars

(***************************************************************************)
(* The scenario tests pick their credential from users.json (specification *)
(* SpecCred).  An entry of the list is handed around with its position in  *)
(* the file, which stands for the identity of the parsed object.           *)
(***************************************************************************)
MaxUsers == 4

UserNames == {"u1", "u2", "u3", "u4"}
CredEntries == [username : UserNames, password : {"p1"}, registered : BOOLEAN]
CredStores ==
  {[exists |-> TRUE, users |-> us] : us \in UNION {[1..n -> CredEntries] : n \in 0..MaxUsers}}

Undefined == [kind |-> "undefined"]

\* loadUsers(): JSON.parse(fs.readFileSync(usersPath))
loadUsers ==
  [i \in DOMAIN store.users |->
     [kind |-> "user", pos |-> i, username |-> store.users[i].username,
      registered |-> store.users[i].registered]]

IsRegistered(u) == u.registered
\* users.filter((u) => u.registered)
Filter(users) == SelectSeq(users, IsRegistered)
\* users.find((u) => u.registered)
Find(users) ==
  IF \E i \in DOMAIN users : users[i].registered
    THEN users[CHOOSE i \in DOMAIN users :
                 users[i].registered /\ \A j \in 1..(i - 1) : ~users[j].registered]
    ELSE Undefined
\* array[k], indices from 0
At(array, k) == IF k + 1 \in DOMAIN array THEN array[k + 1] ELSE Undefined
\* x || y on objects and undefined
Or(x, y) == IF x.kind = "undefined" THEN y ELSE x

\* every test taking the first registered user
PickUser_FirstRegistered(p) == Find(loadUsers)

\* const user = ... of the test of persona p
PickUser(p) ==
  CASE p = "A" -> Find(loadUsers)
    [] p = "B" -> Or(At(Filter(loadUsers), 1), Find(loadUsers))
    [] p = "C" -> Or(At(Filter(loadUsers), 2), Find(loadUsers))
    [] p = "D" -> Or(At(Filter(loadUsers), 3), At(Filter(loadUsers), 0))

\* test("Scenario: User p ..."): the credential is picked (undefined: the test throws)
Assign(p) ==
  /\ p \notin DOMAIN assigned
  /\ assigned' = (p :> PickUser(p)) @@ assigned
  /\ UNCHANGED <<regCalls, acct, parsed>>
  /\ UNCHANGED actVars
  /\ UNCHANGED perVars

InitCred ==
  /\ NoSingleCall
  /\ NoPersona
  /\ store \in CredStores
  /\ storeAtCall = store
  /\ regCalls = <<>>
  /\ assigned = <<>>
  /\ acct = DefaultAccount
  /\ parsed = NoParse

NextCred == \E p \in Personas : Assign(p)

SpecCred == InitCred /\ [][NextCred]_vars

(***************************************************************************)
(* The action library on a live asset panel (specification SpecAssets):    *)
(* the remote game pushes new figures while readAssets reads them.         *)
(***************************************************************************)
\* a WebSocket push arrives while readAssets runs: the first data, or a new price
Push ==
  /\ InRun
  /\ cur.h = "readAssets"
  /\ \E a \in Accounts :
       /\ a # acct
       /\ acct.loaded => a.loaded
       /\ acct' = a
  /\ UNCHANGED <<regCalls, assigned, parsed>>
  /\ UNCHANGED actVars
  /\ UNCHANGED perVars

InitAssets ==
  /\ ui \in {[DefaultUI EXCEPT !.tradeDisabled = d] : d \in BOOLEAN}
  /\ store = NoStore
  /\ cur = NoCall
  /\ stack = <<>>
  /\ clicks = NoClicks
  /\ touched = FALSE
  /\ shots = 0
  /\ ret = Running
  /\ escaped = FALSE
  /\ faults = NoFaults
  /\ uiAtCall = ui
  /\ storeAtCall = store
  /\ ncalls = 0
  /\ NoPersona
  /\ regCalls = <<>>
  /\ assigned = <<>>
  /\ acct \in Accounts
  /\ parsed = NoParse

NextAssets == NextAct \/ Push

SpecAssets == InitAssets /\ [][NextAssets]_vars

(***************************************************************************)
(* parseCurrency on its own (specification SpecParse): it is applied to    *)
(* null and to every text of at most MaxLen characters.                    *)
(***************************************************************************)
Alphabet == {"0", "1", ".", "-", "$"}

\* the texts of at most MaxLen characters
Strings == UNION {[1..n -> Alphabet] : n \in 0..MaxLen}

\* what textContent() hands to parseCurrency: null or a text
Texts == {TNull} \cup {Txt(s) : s \in Strings}

\* parseCurrency(text)
ApplyParse ==
  /\ parsed.out.kind = "none"
  /\ parsed' = [parsed EXCEPT !.out = parseCurrency(parsed.text)]
  /\ UNCHANGED <<regCalls, assigned, acct>>
  /\ UNCHANGED actVars
  /\ UNCHANGED perVars

InitParse ==
  /\ NoSingleCall
  /\ NoPersona
  /\ store = NoStore
  /\ storeAtCall = store
  /\ regCalls = <<>>
  /\ assigned = <<>>
  /\ acct = DefaultAccount
  /\ parsed \in {[text |-> t, out |-> [kind |-> "none"]] : t \in Texts}

NextParse == ApplyParse

SpecParse == InitParse /\ [][NextParse]_vars

(***************************************************************************)
(* Properties of the persona loops (Spec, FairSpec).                       *)
(***************************************************************************)
Deadline == startTime + duration

\* C2, as the specification words it: once the budget has elapsed the
\* persona starts no new action, so no call of the current iteration was
\* started at or after the deadline.
C2_NoActionStartsAfterBudget ==
  \A i \in DOMAIN iterCalls : ~iterCalls[i].late

\* C2, amended: the budget is tested at the head of the loop only.  No
\* iteration begins at or after the deadline, every call of the loop belongs to
\* an iteration that began before it, and personas A, B and C leave the loop
\* only when the budget has elapsed.
C2_NoIterationStartsAfterBudget ==
  /\ loc.iteration > 0 => loc.iterStart < Deadline
  /\ iterCalls # <<>> => loc.iteration > 0
  /\ (pc = "done" /\ persona # "D") => now >= Deadline

\* an iteration that began within the budget starts a call after the deadline
C2_Witness ==
  /\ persona = "A"
  /\ loc.iterStart < Deadline
  /\ Len(iterCalls) = 3
  /\ iterCalls[3].name = "buyStock"
  /\ iterCalls[3].late

\* C3: when no quiz is published, runUserD still comes to its end: from the
\* loop it reaches the end of the function, unless a quiz is published.
C3_DFinishesWithoutQuiz ==
  (persona = "D" /\ pc = "loop") ~> (pc = "done" \/ game.quiz)

\* C4: login is the first call and waitForGameStart the second; no other
\* action is invoked unless both returned true; when either returns false the
\* persona throws and invokes nothing further.
C4_Failed(log) == Returned(log) /\ Last(log).res # RTrue
C4_LoginThenGameStartOrThrow ==
  /\ Len(preCalls) <= 2
  /\ Len(preCalls) >= 1 => preCalls[1].name = "login"
  /\ Len(preCalls) = 2 => preCalls[2].name = "waitForGameStart" /\ preCalls[1].res = RTrue
  /\ (iterCalls # <<>> \/ loc.iteration > 0 \/ pc = "done") =>
       Len(preCalls) = 2 /\ preCalls[2].res = RTrue
  /\ C4_Failed(preCalls) =>
       /\ pc \in {"loginCheck", "gameCheck", "thrown"}
       /\ iterCalls = <<>>
       /\ loc.iteration = 0
  /\ pc = "thrown" => C4_Failed(preCalls)

\* waitForGameStart returned false and the persona threw
C4_Witness ==
  /\ pc = "thrown"
  /\ Len(preCalls) = 2
  /\ preCalls[2].res = RFalse
  /\ iterCalls = <<>>

\* runUserA has read the assets and the price of this iteration and has decided
C5_Decided ==
  /\ persona = "A"
  /\ pc \in {"settle", "sleeping"}
  /\ Len(iterCalls) >= 2
  /\ iterCalls[2].res # Running

C6_Decided ==
  /\ persona = "B"
  /\ pc \in {"B_count", "settle", "sleeping"}

\* C6: in a runUserB iteration, rand < 0.2 -> cancelAllContracts is invoked
\* once and buyContract is not; rand >= 0.2 -> buyContract is invoked once,
\* with a direction in {LONG, SHORT}, an integer leverage in [1, 5] and 1 lot.
C6_CancelOrOpenOneContract ==
  C6_Decided =>
    /\ Len(iterCalls) = 2
    /\ iterCalls[1].name = "readContracts"
    /\ IF 5 * loc.rand < RandDen
         THEN iterCalls[2].name = "cancelAllContracts"
         ELSE /\ iterCalls[2].name = "buyContract"
              /\ iterCalls[2].args.type \in {"LONG", "SHORT"}
              /\ ~iterCalls[2].args.leverage.frac
              /\ iterCalls[2].args.leverage.v \in 1..5
              /\ iterCalls[2].args.lots = Num(1, FALSE)

\* runUserB opened a LONG contract with leverage 5
C6_Witness ==
  /\ C6_Decided
  /\ 5 * loc.rand >= RandDen
  /\ iterCalls[2].name = "buyContract"
  /\ iterCalls[2].args.type = "LONG"
  /\ iterCalls[2].args.leverage = Num(5, FALSE)

\* the place of readAssets among the calls of a runUserC iteration
C7_ReadAt ==
  IF iterCalls # <<>> /\ iterCalls[1].name = "interactWithLoanShark" THEN 2 ELSE 1

\* runUserC has read the assets of this iteration and has decided
C7_Decided ==
  /\ persona = "C"
  /\ pc \in {"C_count", "settle", "sleeping"}
  /\ Len(iterCalls) >= C7_ReadAt
  /\ iterCalls[C7_ReadAt].name = "readAssets"
  /\ iterCalls[C7_ReadAt].res.kind = "AssetData"

\* C7, as the specification words it: debt = 0 -> handleLoan(BORROW, 100);
\* debt > 0 and cash >= min(100, debt) -> handleLoan(REPAY, min(100, debt));
\* otherwise no loan action.
C7_RepayWhenCashCoversRepayment ==
  C7_Decided =>
    LET a == iterCalls[C7_ReadAt].res
        k == C7_ReadAt + 1
    IN IF a.debt = 0
         THEN /\ Len(iterCalls) = k
              /\ iterCalls[k].name = "handleLoan"
              /\ iterCalls[k].args = [action |-> "BORROW", amount |-> Num(100, FALSE)]
         ELSE IF a.debt > 0 /\ a.cash >= Min(100, a.debt)
           THEN /\ Len(iterCalls) = k
                /\ iterCalls[k].name = "handleLoan"
                /\ iterCalls[k].args =
                     [action |-> "REPAY", amount |-> Num(Min(100, a.debt), FALSE)]
           ELSE Len(iterCalls) = k - 1

\* C7, amended: debt = 0 -> handleLoan(BORROW, 100); debt > 0 and cash >= 100
\* -> handleLoan(REPAY, min(100, debt)); otherwise no loan action.
C7_LoanRule ==
  C7_Decided =>
    LET a == iterCalls[C7_ReadAt].res
        k == C7_ReadAt + 1
    IN IF a.debt = 0
         THEN /\ Len(iterCalls) = k
              /\ iterCalls[k].name = "handleLoan"
              /\ iterCalls[k].args = [action |-> "BORROW", amount |-> Num(100, FALSE)]
         ELSE IF a.debt > 0 /\ a.cash >= 100
           THEN /\ Len(iterCalls) = k
                /\ iterCalls[k].name = "handleLoan"
                /\ iterCalls[k].args =
                     [action |-> "REPAY", amount |-> Num(Min(100, a.debt), FALSE)]
           ELSE Len(iterCalls) = k - 1

\* runUserC owes 50, holds 50 and idles
C7_Witness ==
  /\ C7_Decided
  /\ iterCalls[C7_ReadAt].res.debt = 50
  /\ iterCalls[C7_ReadAt].res.cash = 50
  /\ Len(iterCalls) = C7_ReadAt
  /\ loc.idleCount > 0

\* C8: in a runUserD round the calls are waitForQuizStart, answerQuiz,
\* waitQuizResultAndReport, in this order; the latter two are made only if
\* waitForQuizStart returned true; when it returns false the loop ends.
C8_QuizRoundOrder ==
  persona = "D" =>
    /\ Len(iterCalls) <= 3
    /\ Len(iterCalls) >= 1 => iterCalls[1].name = "waitForQuizStart"
    /\ Len(iterCalls) >= 2 => iterCalls[2].name = "answerQuiz" /\ iterCalls[1].res = RTrue
    /\ Len(iterCalls) = 3 =>
         iterCalls[3].name = "waitQuizResultAndReport" /\ iterCalls[2].res # Running
    /\ (Len(iterCalls) = 1 /\ Returned(iterCalls) /\ iterCalls[1].res # RTrue) =>
         pc \in {"D_answer", "done"}
    /\ (pc = "done" /\ now < Deadline) =>
         Len(iterCalls) = 1 /\ iterCalls[1].res = RFalse

\* a whole round was played: the report has returned
C8_Witness ==
  /\ persona = "D"
  /\ Len(iterCalls) = 3
  /\ iterCalls[3].name = "waitQuizResultAndReport"
  /\ iterCalls[3].res # Running
  /\ pc = "sleeping"

\* waitForQuizStart returned false and the loop ended within the budget
C8_WitnessBreak ==
  /\ persona = "D"
  /\ pc = "done"
  /\ now < Deadline
  /\ iterCalls[1].res = RFalse

(***************************************************************************)
(* Properties of the action library (SpecAct).                             *)
(***************************************************************************)
\* a top-level call has been made and has ended
Finished == stack = <<>> /\ cur # NoCall

\* C1: no GameActions action lets an exception escape to its caller: a call
\* never ends by throwing, and a call whose own catch handler ran returned
\* false or null, also when the screenshot taken in the handler failed.
C1_NoExceptionEscapes ==
  /\ ~escaped
  /\ ret # Threw
  /\ (Finished /\ faults.caught) => ret \in {RFalse, RNull}

\* a call ended after an exception was caught and the handler's screenshot failed
C1_Witness ==
  /\ Finished
  /\ cur.h = "buyStock"
  /\ faults.caught
  /\ faults.shotFailed
  /\ ret = RFalse

\* C9: buyStock with lots <= 0 or non-integer, buyContract with lots <= 0 or
\* non-integer or leverage <= 0, and handleLoan with amount <= 0 return false
\* before any page interaction and without taking a screenshot.
C9_NonPositive(x) == x.v < 0 \/ (x.v = 0 /\ ~x.frac)
C9_BadInput ==
  \/ cur.h = "buyStock" /\ (C9_NonPositive(cur.arg.lots) \/ cur.arg.lots.frac)
  \/ /\ cur.h = "buyContract"
     /\ \/ C9_NonPositive(cur.arg.lots)
        \/ cur.arg.lots.frac
        \/ C9_NonPositive(cur.arg.leverage)
  \/ cur.h = "handleLoan" /\ C9_NonPositive(cur.arg.amount)
C9_InvalidInputRejectedUntouched ==
  C9_BadInput =>
    /\ ~touched
    /\ clicks = NoClicks
    /\ shots = 0
    /\ ~faults.thrown
    /\ ui = uiAtCall
    /\ Len(stack) <= 1
    /\ Finished => ret = RFalse

\* buyContract with valid lots and a leverage of 0 has returned false
C9_Witness ==
  /\ Finished
  /\ cur.h = "buyContract"
  /\ cur.arg.lots = Num(1, FALSE)
  /\ cur.arg.leverage = Num(0, FALSE)
  /\ ret = RFalse
  /\ ~touched

\* C10: buyStock and buyContract called while the trade button is disabled
\* return false without clicking the trade button or a confirm button, and
\* without a retry (nothing is clicked twice).
C10_DisabledTradeNotClicked ==
  (cur.h \in {"buyStock", "buyContract"} /\ ui.tradeDisabled) =>
    /\ "tradeButton" \notin DOMAIN clicks
    /\ "confirmButton" \notin DOMAIN clicks
    /\ \A t \in DOMAIN clicks : clicks[t] = 1
    /\ Finished => ret = RFalse

\* buyStock with a valid lot count got as far as the disabled button and returned false
C10_Witness ==
  /\ Finished
  /\ cur.h = "buyStock"
  /\ cur.arg.lots = Num(1, FALSE)
  /\ ui.tradeDisabled
  /\ ~faults.thrown
  /\ "lotsInput" \in DOMAIN clicks
  /\ ret = RFalse

\* handleLoan, given a positive amount, has found the submit control disabled
\* and has returned
C11_FoundDisabled ==
  /\ Finished
  /\ cur.h = "handleLoan"
  /\ ~(cur.arg.amount.v < 0 \/ (cur.arg.amount.v = 0 /\ ~cur.arg.amount.frac))
  /\ ui.loanDisabled
  /\ ui.modal
  /\ ~faults.thrown
  /\ ret = RFalse

\* C11: when handleLoan finds the submit control disabled it returns false,
\* clicks neither the submit control nor a confirmation, and leaves the loan
\* modal (open or closed) and the borrow/repay mode as they were before the call.
C11_DisabledSubmitLeavesPageAsItWas ==
  C11_FoundDisabled =>
    /\ "loanSubmit" \notin DOMAIN clicks
    /\ "confirmButton" \notin DOMAIN clicks
    /\ ui.modal = uiAtCall.modal
    /\ ui.loanMode = uiAtCall.loanMode

\* C12: whenever handleLoan returns true, the loan-shark modal is closed at the
\* moment it returns.
C12_TrueMeansModalClosed ==
  (Finished /\ cur.h = "handleLoan" /\ ret = RTrue) => ~ui.modal

\* the top-level cancelAllContracts call is about to return
C13_AtReturn ==
  /\ InRun
  /\ Len(stack) = 1
  /\ Top.h = "cancelAllContracts"
  /\ Ins.k = "ret"

\* C13: cancelAllContracts returns true without clicking anything if the contract
\* book it read is empty; on a non-empty book it returns true only after it clicked
\* the cancel-all control and the confirm button, the dialog has closed, and the
\* fixed settle wait has run.
C13_CancelAllProtocol ==
  C13_AtReturn =>
    IF Cond("noContracts", Top.regs, cur.arg)
      THEN Ins.v = RTrue /\ clicks = NoClicks
      ELSE Ins.v = RTrue =>
             /\ "cancelButton" \in DOMAIN clicks
             /\ "confirmButton" \in DOMAIN clicks
             /\ ~ui.dialog
             /\ Prog(Top.h)[Top.pc - 1] = U("sleep", "3000")

\* a cancel-all on a non-empty book is about to return true
C13_Witness ==
  /\ C13_AtReturn
  /\ ~Cond("noContracts", Top.regs, cur.arg)
  /\ Ins.v = RTrue

\* C14: after cancelAllContracts returned true on a non-empty contract book, the
\* next readContracts reports zero contracts and zero margin.
C14_BookEmptyAfterCancel ==
  (Finished /\ cur.h = "readContracts" /\ cur.arg = AfterCancel(TRUE)) =>
    /\ ret.kind = "ContractData"
    /\ ret.n = 0
    /\ ret.margin = 0

\* C15: in buyStock, buyContract, cancelAllContracts and handleLoan, a tab or mode
\* that is already the required one when the action is entered (spot/contract tab,
\* buy mode, long/short direction, borrow/repay mode) is never clicked by the action.
C15_ActiveTabOrModeNotClicked ==
  /\ (cur.h = "buyStock" /\ uiAtCall.tab = "spot") => "spotTab" \notin DOMAIN clicks
  /\ (cur.h = "buyStock" /\ uiAtCall.side = "buy") => "buySellSwitch" \notin DOMAIN clicks
  /\ (cur.h \in {"buyContract", "cancelAllContracts"} /\ uiAtCall.tab = "contract") =>
       "contractTab" \notin DOMAIN clicks
  /\ (cur.h = "buyContract" /\ uiAtCall.dir = cur.arg.type) =>
       "directionButton" \notin DOMAIN clicks
  /\ (cur.h = "handleLoan"
        /\ uiAtCall.loanMode = (IF cur.arg.action = "BORROW" THEN "borrow" ELSE "repay")) =>
       "loanModeSwitch" \notin DOMAIN clicks

\* a contract was bought on a page that already showed the contract tab and the
\* requested direction
C15_Witness ==
  /\ Finished
  /\ cur.h = "buyContract"
  /\ ret = RTrue
  /\ uiAtCall.tab = "contract"
  /\ uiAtCall.dir = cur.arg.type
  /\ "tradeButton" \in DOMAIN clicks

\* C16: login returns true only if, after the submit, the page URL reached the home
\* route and a non-empty session token is in local storage; if either is missing
\* it returns false.
C16_LoginTrueIffHomeAndToken ==
  (Finished /\ cur.h = "login") =>
    /\ ret = RTrue => ("submitLogin" \in DOMAIN clicks /\ ui.home /\ ui.token)
    /\ ~(ui.home /\ ui.token) => ret = RFalse

\* a login that reached the home route and found no token
C16_Witness ==
  /\ Finished
  /\ cur.h = "login"
  /\ "submitLogin" \in DOMAIN clicks
  /\ ui.home
  /\ ~ui.token
  /\ ~faults.thrown

\* the top-level waitForGameStart call is about to return from its body
C17_AtReturn ==
  /\ InRun
  /\ Len(stack) = 1
  /\ Top.h = "waitForGameStart"
  /\ Ins.k = "ret"

\* two samples of the countdown text, taken by the running call, differ
C17_SawChange ==
  \/ Top.regs["firstCountdown"] # Top.regs["secondCountdown"]
  \/ /\ "currentCountdown" \in DOMAIN Top.regs
     /\ Top.regs["currentCountdown"] # Top.regs["secondCountdown"]

\* C17: waitForGameStart returns true only after it has seen two samples of the
\* countdown text that differ; it returns false only when a page step threw, never
\* because a waiting bound ran out; while the samples stay equal it goes on
\* sampling and does not return.
C17_ReturnsOnlyOnChangeOrThrow ==
  /\ C17_AtReturn => (Ins.v = RTrue /\ C17_SawChange)
  /\ (Finished /\ cur.h = "waitForGameStart") =>
       /\ ret \in {RTrue, RFalse}
       /\ ret = RFalse <=> faults.thrown

\* the call went through the polling loop and is about to return true
C17_Witness ==
  /\ C17_AtReturn
  /\ Top.regs["firstCountdown"] = Top.regs["secondCountdown"]
  /\ "currentCountdown" \in DOMAIN Top.regs
  /\ Top.regs["currentCountdown"] # Top.regs["secondCountdown"]

\* the credential the running register call was given
C18_Entry == [username |-> cur.arg.user, password |-> cur.arg.pass, registered |-> TRUE]

\* a finished register call returned true exactly when the store is the store of
\* the call's start with the one new entry appended, and left the store alone
\* when it returned false
C18_AppendsIffTrue ==
  (Finished /\ cur.h = "register") =>
    /\ ret \in {RTrue, RFalse}
    /\ ret = RTrue <=> store.users = Append(storeAtCall.users, C18_Entry)
    /\ ret = RFalse => store = storeAtCall

\* the store is written only by a register call that has got past its wait for
\* the success toast with no step having thrown
C18_WriteAfterToast ==
  store' # store =>
    /\ InRun
    /\ Top.h = "register"
    /\ ~faults.thrown
    /\ \E i \in 1..(Top.pc - 1) : Prog(Top.h)[i] = U("waitFor", "registerToast")

\* C18: register appends exactly one entry {username, password, registered: true}
\* to the credential store if and only if it returns true, and only after the
\* success toast was observed; when it returns false the store is unchanged.
C18_RegisterStoreEffect == []C18_AppendsIffTrue /\ [][C18_WriteAfterToast]_vars

\* a registration has been appended to a store that already held a credential
C18_Witness ==
  /\ Finished
  /\ cur.h = "register"
  /\ ret = RTrue
  /\ Len(storeAtCall.users) = 1
  /\ Len(store.users) = 2

\* all register calls have returned true
C19_AllTrue == \A c \in DOMAIN regCalls : regCalls[c].ret = RTrue

\* the credentials of the callers that the store holds
C19_Kept == {c \in DOMAIN regCalls : \E i \in DOMAIN store.users : store.users[i] = RegEntry(c)}

\* both calls returned true and the store holds only one of the two new credentials
C19_LostUpdate ==
  /\ regCalls # <<>>
  /\ C19_AllTrue
  /\ Cardinality(C19_Kept) = 1

\* C19: two register calls running concurrently on one credential store can lose
\* an update (both return true, the store holds one of the two new credentials);
\* this happens only to calls of different processes, and two calls that
\* returned true never lose both credentials.
C19_LostUpdateOnlyAcrossProcesses ==
  (regCalls # <<>> /\ C19_AllTrue) =>
    /\ Cardinality(C19_Kept) >= 1
    /\ Cardinality(C19_Kept) = 1 => regCalls[1].proc # regCalls[2].proc

\* the update of one of two successful register calls is lost
C19_Witness == C19_LostUpdate

\* positions of the registered entries of users.json
C20_Registered == {i \in DOMAIN store.users : store.users[i].registered}
\* how many registered entries stand before position i
C20_Before(i) == Cardinality({j \in C20_Registered : j < i})
C20_Rank(p) == CASE p = "A" -> 1 [] p = "B" -> 2 [] p = "C" -> 3 [] p = "D" -> 4

\* personas A, B, C, D have the 1st, 2nd, 3rd, 4th registered credential, or
\* the first registered one when there are fewer (none: nothing to pick)
C20_PicksByIndex ==
  \A p \in DOMAIN assigned :
    LET want == {i \in C20_Registered : C20_Before(i) = C20_Rank(p) - 1}
        first == {i \in C20_Registered : C20_Before(i) = 0}
    IN IF want # {} THEN assigned[p].kind = "user" /\ assigned[p].pos \in want
       ELSE IF first # {} THEN assigned[p].kind = "user" /\ assigned[p].pos \in first
       ELSE assigned[p].kind = "undefined"

\* at least four registered credentials, and all four tests have picked
C20_FourRegistered ==
  /\ Cardinality(C20_Registered) >= 4
  /\ DOMAIN assigned = Personas

\* the user names of the first four registered entries are pairwise different
C20_NamesDiffer ==
  \A i, j \in {k \in C20_Registered : C20_Before(k) < 4} :
    i # j => store.users[i].username # store.users[j].username

\* C20 as stated: the personas pick the 1st..4th registered credential with the
\* fallback to the first, and with four registered credentials in the store the
\* four personas have pairwise different user names.
C20_PairwiseDifferentUsernames ==
  /\ C20_PicksByIndex
  /\ C20_FourRegistered =>
       \A p, q \in Personas : p # q => assigned[p].username # assigned[q].username

\* C20, amended: the personas pick the 1st..4th registered credential with the
\* fallback to the first; with four registered credentials in the store the four
\* personas have four different entries of the store, and pairwise different
\* user names if the first four registered entries have.
C20_PairwiseDifferentEntries ==
  /\ C20_PicksByIndex
  /\ C20_FourRegistered =>
       /\ \A p, q \in Personas : p # q => assigned[p].pos # assigned[q].pos
       /\ C20_NamesDiffer =>
            \A p, q \in Personas : p # q => assigned[p].username # assigned[q].username

\* four registered credentials with four names, all four tests have picked
C20_Witness ==
  /\ C20_FourRegistered
  /\ C20_NamesDiffer
  /\ Cardinality({assigned[p].username : p \in Personas}) = 4

\* the top-level readAssets call is about to return its snapshot
C21_AtReturn ==
  /\ InRun
  /\ Len(stack) = 1
  /\ Top.h = "readAssets"
  /\ Ins.k = "retr"

\* the text holds a figure
C21_HasFigure(text) == ~text.null /\ \E i \in DOMAIN text.s : IsDigit(text.s[i])
\* the figure of a text of the panel (no sign, no decimal point)
C21_FigureOf(text) == IntOf(SelectSeq(text.s, IsDigit)) * Scale
\* the texts the panel can show for a figure, whatever the account
C21_PanelTexts == Placeholders \cup {Dollars(n) : n \in 0..(MaxPrice + 1)} \cup {Txt(<<"1", " ">>)}

C21_Field(snapshot, fact) ==
  CASE fact = "totalAssetsText" -> snapshot.totalAssets
    [] fact = "cashText" -> snapshot.cash
    [] fact = "stockCountText" -> snapshot.stockCount
    [] fact = "stockValueText" -> snapshot.stockValue
    [] fact = "debtText" -> snapshot.debt

\* a finished readAssets returned null or a snapshot
C21_NullOrSnapshot ==
  (Finished /\ cur.h = "readAssets") => ret.kind \in {"null", "AssetData"}

\* C21 as stated: readAssets returns null or a snapshot whose five fields were all
\* read from the page; a field that cannot be located or read makes it return
\* null, and no field of a snapshot is a default standing for a missing figure.
C21_AllOrNothing ==
  /\ C21_NullOrSnapshot
  /\ C21_AtReturn => \A fact \in AssetFacts : C21_HasFigure(Top.regs[fact])

\* C21, amended: readAssets returns null exactly when a step threw (an element was
\* not located); otherwise it returns a snapshot for which all five texts were
\* taken from the panel, a field being the figure of its text, or 0 when the text
\* holds no figure.
C21_AllLocatedOrNull ==
  /\ C21_NullOrSnapshot
  /\ (Finished /\ cur.h = "readAssets") => (ret.kind = "null" <=> faults.thrown)
  /\ C21_AtReturn =>
       \A fact \in AssetFacts :
         /\ fact \in DOMAIN Top.regs
         /\ Top.regs[fact] \in C21_PanelTexts
         /\ C21_Field(Top.regs["assetData"], fact) =
              Number(IF C21_HasFigure(Top.regs[fact]) THEN C21_FigureOf(Top.regs[fact]) ELSE 0)

\* a snapshot is about to be returned in which a field stands for a text
\* without a figure
C21_Witness ==
  /\ C21_AtReturn
  /\ \E fact \in AssetFacts : ~C21_HasFigure(Top.regs[fact])

\* totalAssets - (cash + stockValue - debt) of a snapshot, in 1/Scale
C22_Gap(a) == a.totalAssets.v - (a.cash.v + a.stockValue.v - a.debt.v)

\* C22: every non-null snapshot returned by readAssets satisfies
\* |totalAssets - (cash + stockValue - debt)| < 0.01, whatever the remote game
\* does to the figures between the reads of the fields.
C22_SnapshotIdentity ==
  (Finished /\ cur.h = "readAssets" /\ ret.kind = "AssetData") =>
    /\ C22_Gap(ret) * 100 < Scale
    /\ C22_Gap(ret) * 100 > 0 - Scale

\* some character of the text is a digit
C23_HasDigit(text) == ~text.null /\ \E i \in DOMAIN text.s : IsDigit(text.s[i])

\* C23: parseCurrency never throws and never returns NaN; for null, for the
\* empty text and for any text without a digit (a text of only '-' and '.'
\* included) it returns exactly 0.
C23_ParseCurrencyTotal ==
  parsed.out.kind # "none" =>
    /\ parsed.out.kind = "number"
    /\ parsed.out.v \in Int
    /\ ~C23_HasDigit(parsed.text) => parsed.out = Number(0)

\* parseCurrency has been applied to a text of only '-' and '.'
C23_Witness ==
  /\ parsed.out.kind # "none"
  /\ ~parsed.text.null
  /\ Len(parsed.text.s) >= 2
  /\ \A i \in DOMAIN parsed.text.s : parsed.text.s[i] \in {"-", "."}
  /\ \E i \in DOMAIN parsed.text.s : parsed.text.s[i] = "-"
  /\ \E i \in DOMAIN parsed.text.s : parsed.text.s[i] = "."

\* the calls of the running iteration of runUserA that buy stock
C24_Buys == {i \in DOMAIN iterCalls : persona = "A" /\ iterCalls[i].name = "buyStock"}

\* the last call of the given name made before call i of the iteration
C24_Read(i, name) ==
  iterCalls[CHOOSE j \in 1..(i - 1) :
              /\ iterCalls[j].name = name
              /\ \A k \in (j + 1)..(i - 1) : iterCalls[k].name # name]

\* C24: every buyStock call issued by runUserA carries an integer number of
\* lots n with 1 <= n <= 5 and n <= floor(cash / price), for the cash and the
\* price read in that same iteration.
C24_LotsWithinCashAndFive ==
  \A i \in C24_Buys :
    /\ \E j \in 1..(i - 1) : iterCalls[j].name = "readAssets"
    /\ \E j \in 1..(i - 1) : iterCalls[j].name = "getCurrentStockPrice"
    /\ LET n == iterCalls[i].args.lots
           cash == C24_Read(i, "readAssets").res.cash
           price == C24_Read(i, "getCurrentStockPrice").res.v
       IN /\ IsInteger(n)
          /\ 1 <= n.v
          /\ n.v <= 5
          /\ price > 0
          /\ n.v <= cash \div price

\* runUserA buys five lots while its cash affords more than five
C24_Witness ==
  \E i \in C24_Buys :
    /\ iterCalls[i].args.lots.v = 5
    /\ C24_Read(i, "readAssets").res.cash \div C24_Read(i, "getCurrentStockPrice").res.v > 5

\* the calls of the running iteration that talk to the merchant
C25_Talks == {i \in DOMAIN iterCalls : iterCalls[i].name = "interactWithLoanShark"}

\* C25: runUserC invokes interactWithLoanShark at most once per run, only
\* during its first loop iteration, and before that iteration's asset read:
\* such a call is the first call of iteration 1, and no call of the kind is
\* made before the loop.
C25_TalksOnceInFirstIteration ==
  /\ \A i \in DOMAIN preCalls : preCalls[i].name # "interactWithLoanShark"
  /\ \A i \in C25_Talks :
       /\ persona = "C"
       /\ loc.iteration = 1
       /\ i = 1
  /\ Cardinality(C25_Talks) <= 1

\* runUserC has talked to the merchant, unsuccessfully, and is in a later
\* iteration that goes straight to the asset read
C25_Witness ==
  /\ persona = "C"
  /\ loc.iteration >= 2
  /\ ~loc.hasTalkedToMerchant
  /\ iterCalls # <<>>
  /\ iterCalls[1].name = "readAssets"

\* runUserC is in its first iteration, has talked to the merchant and reads the
\* assets next
C25_WitnessFirst ==
  /\ persona = "C"
  /\ loc.iteration = 1
  /\ Len(iterCalls) >= 2
  /\ iterCalls[1].name = "interactWithLoanShark"
  /\ iterCalls[2].name = "readAssets"

\* interactWithLoanShark, called directly, has read the dialogue before and after
\* its click on the merchant and is about to return
C26_AtReturn ==
  /\ InRun
  /\ Len(stack) = 1
  /\ Top.h = "interactWithLoanShark"
  /\ Ins.k = "ret"
  /\ "afterDialogue" \in DOMAIN Top.regs

\* C26: interactWithLoanShark returns true exactly when the dialogue text read
\* after the click on the merchant avatar differs from the text read before the
\* click; it does not return true when the text is unchanged.
C26_TrueIffDialogueChanged ==
  C26_AtReturn =>
    (Ins.v = RTrue <=> Top.regs["beforeDialogue"] # Top.regs["afterDialogue"])

\* C27: sellStock(lots) with a positive integer lots, called while the sell
\* button is enabled, runs the protocol of buyStock in sell mode (it clicks the
\* trade button and dismisses the confirmation dialog) and returns true.
C27_SellStockSells ==
  (/\ Finished
   /\ cur.h = "sellStock"
   /\ cur.arg.lots.v >= 1
   /\ IsInteger(cur.arg.lots)
   /\ ~uiAtCall.tradeDisabled
   /\ ~faults.thrown) =>
    /\ ret = RTrue
    /\ "tradeButton" \in DOMAIN clicks
    /\ "confirmButton" \in DOMAIN clicks

\* C28: in a logged-in session (home page shown, token stored),
\* waitForMinorityStart returns only after it has looked at the page for the
\* minority-game overlay, and returns true; betMinority returns true.
C28_MinorityFlowSucceeds ==
  (/\ Finished
   /\ cur.h \in {"waitForMinorityStart", "betMinority"}
   /\ uiAtCall.home
   /\ uiAtCall.token) =>
    /\ ret = RTrue
    /\ cur.h = "waitForMinorityStart" => touched

\* changeAvatar, called directly, is about to return true
C29_AtReturnTrue ==
  /\ InRun
  /\ Len(stack) = 1
  /\ Top.h = "changeAvatar"
  /\ Ins.k = "ret"
  /\ Ins.v = RTrue

C30_Unbounded == {"waitForGameStart", "waitForQuizStart"}

\* the running method waits, without a timeout, for something the page does not show
C30_Blocked ==
  /\ InRun
  /\ Ins.k = "ui"
  /\ Ins.op = "waitForever"
  /\ ~WaitOk(Ins, ui)

\* C30: every action other than waitForGameStart and waitForQuizStart uses only
\* bounded waits, so a call of it returns (success or failure) after finitely
\* many steps whatever the page does; only waitForGameStart and waitForQuizStart
\* can be blocked in a wait without a timeout.
C30_OnlyGameAndQuizStartBlock ==
  /\ [](C30_Blocked => (Top.h \in C30_Unbounded /\ cur.h \in C30_Unbounded))
  /\ [](stack # <<>> => cur # NoCall)
  /\ ((stack # <<>> /\ cur.h \notin C30_Unbounded) ~> (stack = <<>>))

\* waitQuizResultAndReport has given up a wait and returned null, while
\* no quiz is shown
C30_Witness ==
  /\ Finished
  /\ cur.h = "waitQuizResultAndReport"
  /\ faults.thrown
  /\ ret = RNull
  /\ ~ui.quiz

\* waitForQuizStart is blocked in its wait for the quiz title
C30_WitnessBlocked ==
  /\ C30_Blocked
  /\ cur.h = "waitForQuizStart"

\* answerQuiz, called directly, is about to return
C31_AtReturn ==
  /\ InRun
  /\ Len(stack) = 1
  /\ Top.h = "answerQuiz"
  /\ Ins.k = "ret"

\* C31: answerQuiz returns true whenever the requested option button was found
\* and clicked, whatever the countdown numeral and the disabled state of the
\* clicked button; it returns false when no option button was clicked.
C31_TrueWheneverClicked ==
  (Finished /\ cur.h = "answerQuiz") =>
    /\ "targetOption" \in DOMAIN clicks => ret = RTrue
    /\ "targetOption" \notin DOMAIN clicks => ret = RFalse

\* C31, amended: answerQuiz returns true exactly when none of its awaited steps
\* threw, and then the option was clicked once; a countdown numeral that did not
\* disappear and a clicked button that is not disabled do not make it return
\* false.  A step that throws after the click (the wait of 800 ms, the read of
\* the disabled state) makes it return false like any other.
C31_TrueIffNoStepThrew ==
  /\ (Finished /\ cur.h = "answerQuiz") =>
       /\ ret \in {RTrue, RFalse}
       /\ ret = RTrue <=> ~faults.thrown
       /\ ret = RTrue => ("targetOption" \in DOMAIN clicks /\ clicks["targetOption"] = 1)
  /\ C31_AtReturn =>
       /\ Ins.v = RTrue
       /\ {"countdownGone", "isDisabled"} \subseteq DOMAIN Top.regs

\* answerQuiz is about to return true although the countdown numeral did not
\* disappear and the clicked button is not disabled
C31_Witness ==
  /\ C31_AtReturn
  /\ ~Top.regs["countdownGone"]
  /\ ~Top.regs["isDisabled"]

\* the read of the disabled state, after the click, has thrown
C31_FailedAfterClick ==
  /\ stack # <<>>
  /\ Top.h = "answerQuiz"
  /\ Top.mode = "catch"
  /\ Ins.k = "read"
  /\ Ins.t = "optionDisabled"

C33_LoopEntered ==
  /\ Len(preCalls) = 2
  /\ preCalls[1].res = RTrue
  /\ preCalls[2].res = RTrue

\* C33: after login and waitForGameStart have succeeded, a persona loop never
\* throws: whatever the actions invoked inside the loop return, the persona is
\* never left by an exception.
C33_LoopNeverThrows ==
  C33_LoopEntered => pc \notin {"thrown", "typeError"}

\* the persona stands at the head of its loop, before its first iteration, and
\* the budget counted from the launch has elapsed
C34_LateAtLoop ==
  /\ pc = "loop"
  /\ loc.iteration = 0
  /\ now >= duration

\* C34: the budget of a persona is counted from its launch (time 0), before
\* login: every iteration begins less than `duration` after the launch, and a
\* persona that reaches its loop when the budget has already elapsed goes
\* straight to its end, with no iteration, no call and no exception.
C34_BudgetCountsFromLaunch ==
  /\ [](pc # "launch" => startTime = 0)
  /\ [](loc.iteration > 0 => loc.iterStart < duration)
  /\ []((pc = "done" /\ loc.iteration = 0) => (now >= duration /\ iterCalls = <<>>))
  /\ [][C34_LateAtLoop => (pc' \in {"loop", "done"} /\ loc' = loc /\ iterCalls' = iterCalls)]_vars

\* runUserB has finished without an iteration: login and waitForGameStart
\* succeeded, but only after the budget had elapsed
C34_Witness ==
  /\ persona = "B"
  /\ pc = "done"
  /\ loc.iteration = 0
  /\ Len(preCalls) = 2
  /\ preCalls[2].res = RTrue
  /\ iterCalls = <<>>

\* the top-level cancelAllContracts call is about to return, its preliminary
\* readContracts having failed (returned null)
C35_AtReturnAfterFailedRead ==
  /\ InRun
  /\ Len(stack) = 1
  /\ Top.h = "cancelAllContracts"
  /\ Ins.k = "ret"
  /\ Top.regs["beforeData"].kind = "null"

C36_OneProcess ==
  /\ regCalls # <<>>
  /\ \A c, d \in DOMAIN regCalls : regCalls[c].proc = regCalls[d].proc

\* the register calls that have returned true
C36_ReturnedTrue == {c \in DOMAIN regCalls : regCalls[c].ret = RTrue}

\* no register call is between two awaits
C36_AtAwait == \A c \in DOMAIN regCalls : ~HoldsLoop(c)

\* C36: register's read-append-write of users.json has no suspension point, so
\* register calls interleaved as async tasks of one process never lose an
\* update: whenever the tasks are at their awaits, the store has grown by
\* exactly one entry per call that has returned true, each of these calls has
\* its credential in the store, and the earlier entries are kept.
C36_NoLostUpdateInOneProcess ==
  (C36_OneProcess /\ C36_AtAwait) =>
    /\ Len(store.users) = Len(storeAtCall.users) + Cardinality(C36_ReturnedTrue)
    /\ C36_ReturnedTrue \subseteq C19_Kept
    /\ SubSeq(store.users, 1, Len(storeAtCall.users)) = storeAtCall.users

\* two register calls of one process have interleaved at their awaits, both
\* returned true, and the store has grown by two entries
C36_Witness ==
  /\ C36_OneProcess
  /\ C36_ReturnedTrue = RegCallers
  /\ Len(store.users) = Len(storeAtCall.users) + 2
  /\ Len(storeAtCall.users) = 1

\* how many waitForQuizStart calls of runUserD have returned true so far: one
\* in every earlier round (a round whose wait returns anything else leaves the
\* loop), and the one of the current round
C37_StartsDetected ==
  (IF loc.iteration > 0 THEN loc.iteration - 1 ELSE 0)
  + (IF iterCalls # <<>> /\ iterCalls[1].name = "waitForQuizStart" /\ iterCalls[1].res = RTrue
       THEN 1 ELSE 0)

\* C37: runUserD answers each published quiz at most once: once
\* waitQuizResultAndReport has returned for a quiz, the next waitForQuizStart
\* does not return true until a new quiz is published.  Every true return of
\* waitForQuizStart then belongs to a quiz of its own, so they are never more
\* than the quizzes published.
C37_EachQuizAnsweredOnce ==
  persona = "D" => C37_StartsDetected <= game.published

\* runUserD is in its second round on the one quiz published so far, its
\* waitQuizResultAndReport of the first round having returned
C37_SameQuizTwice ==
  /\ persona = "D"
  /\ loc.iteration = 2
  /\ game.published = 1
  /\ iterCalls # <<>>
  /\ iterCalls[1].res = RTrue

\* the run statistics of runUserB and of runUserC
C38_StatsB == <<loc.buyCount, loc.cancelCount>>
C38_StatsC == <<loc.borrowCount, loc.repayCount, loc.idleCount>>

\* in every state the counters of a persona add up to at most its iterations,
\* and a persona that is not runUserB (runUserC) has left B's (C's) counters at 0
C38_StatsBounded ==
  /\ loc.buyCount + loc.cancelCount <= loc.iteration
  /\ loc.borrowCount + loc.repayCount + loc.idleCount <= loc.iteration
  /\ persona # "B" => C38_StatsB = <<0, 0>>
  /\ persona # "C" => C38_StatsC = <<0, 0, 0>>

\* runUserB has got the result `name` returned true and is at its counting statement
C38_BSucceeded(name) ==
  /\ persona = "B"
  /\ pc = "B_count"
  /\ Returned(iterCalls)
  /\ Last(iterCalls).name = name
  /\ Last(iterCalls).res = RTrue

\* a step counts a success of runUserB: the counter of the action that returned
\* true goes up by one in the step that leaves the counting statement, and in
\* no other step does a counter of runUserB change
C38_BCountsSuccesses ==
  /\ loc.buyCount' = loc.buyCount + 1
       <=> (C38_BSucceeded("buyContract") /\ pc' = "settle")
  /\ loc.cancelCount' = loc.cancelCount + 1
       <=> (C38_BSucceeded("cancelAllContracts") /\ pc' = "settle")
  /\ loc.buyCount' \in {loc.buyCount, loc.buyCount + 1}
  /\ loc.cancelCount' \in {loc.cancelCount, loc.cancelCount + 1}

\* the counters of runUserC change in the statements of runUserC only, by one
\* counter and by one at a time
C38_CCountsOwn ==
  C38_StatsC' # C38_StatsC =>
    /\ persona = "C"
    /\ pc \in {"C_loan", "C_count"}
    /\ (loc.borrowCount' + loc.repayCount' + loc.idleCount')
         = (loc.borrowCount + loc.repayCount + loc.idleCount) + 1
    /\ loc.borrowCount' >= loc.borrowCount
    /\ loc.repayCount' >= loc.repayCount
    /\ loc.idleCount' >= loc.idleCount

C38_WitnessC ==
  /\ persona = "C"
  /\ loc.borrowCount = 1
  /\ loc.idleCount = 1
  /\ loc.iteration = 2

====
